---- MODULE Spec2Model ----
(***************************************************************************)
(* A model of py-jsonapi: the Includer (jsonapi/core/includer.py), the     *)
(* API dispatcher (jsonapi/core/api.py), the request handlers              *)
(* (jsonapi/core/handler.py, jsonapi/schema/handler.py), the response      *)
(* builders (jsonapi/core/response_builder.py), the relationship encoders  *)
(* (jsonapi/encoder.py, jsonapi/base/schema/type.py), the errors           *)
(* (jsonapi/errors.py) and the pagination helpers (jsonapi/pagination.py). *)
(*                                                                         *)
(* Each component has its own specification (SpecIncluder, SpecAPI,        *)
(* SpecHandler, SpecEncoder, SpecPagination) over the shared variables;    *)
(* the variables of the other components keep their initial value.         *)
(***************************************************************************)
EXTENDS Integers, Sequences, FiniteSets, TLC

VARIABLES
    author,     \* the to-one relationship "author" of every Post and Comment
    comments,   \* the to-many relationship "comments" of every Post
    inc,        \* the last call made on an Includer and what it returned
    handlers,   \* API._handler: endpoint spec -> handler
    debug,      \* API._debug
    resp,       \* the last request given to API.handle_request and its outcome
    hcall,      \* the last direct call of Handler.handle and its outcome
    enc,        \* the last relationship serialization and its result
    pager,      \* the last pagination helper constructed and its json_links()
    req,        \* the last property read from a Request and its value
    val,        \* the last document given to a Validator and the outcome
    upd,        \* the last Schema.update_resource call and its outcome
    rb,         \* a response builder: its data, included list and document
    walk,       \* the page a client following the pagination links is on
    registry    \* API._encoder, API._resource_class_to_encoder, last lookup

vars ==
    <<author, comments, inc, handlers, debug, resp, hcall, enc, pager, req,
      val, upd, rb, walk, registry>>

graphVars == <<author, comments>>
apiVars == <<handlers, debug, resp>>

-----------------------------------------------------------------------------
(* Bounds *)

\* ids of the User resources
MaxUserId == 1
\* distinct resource objects that carry the same (typename, id) of a User
NumCopies == 2
\* ids of the Comment resources
MaxCommentId == 2
\* include paths given to one call of fetch_paths
MaxPaths == 2
\* resources a to-many relationship getter returns
MaxItems == 2
\* page numbers given to NumberSize
MaxNumber == 4
\* page sizes and limits given to the pagination helpers
MaxSize == 3
\* total number of resources of a paginated collection
MaxTotal == 7
MaxFields == 2
MaxParams == 2

-----------------------------------------------------------------------------
(* Resources: opaque objects of the application.  Two objects are the same *)
(* Python object iff the records are equal; copy distinguishes two objects *)
(* that carry the same typename and id.                                    *)

Res(t, i, c) == [type |-> t, id |-> i, copy |-> c]

\* Python's None, shaped like a resource so that it can sit in a set with them
None == Res("None", 0, 0)

Posts == {Res("Post", 1, 1)}
Users == {Res("User", i, c) : i \in 1..MaxUserId, c \in 1..NumCopies}
Comments == {Res("Comment", i, 1) : i \in 1..MaxCommentId}
Resources == Posts \cup Users \cup Comments

\* (typename, id) of a resource: API.ensure_identifier on a resource object
ensure_identifier(o) == <<o.type, o.id>>

\* the elements of a sequence
Range(s) == {s[i] : i \in DOMAIN s}

\* a set as a list, in the order the model fixes for it
RECURSIVE SetToSeq(_)
SetToSeq(S) ==
    IF S = {} THEN <<>>
    ELSE LET x == CHOOSE y \in S : TRUE IN <<x>> \o SetToSeq(S \ {x})

-----------------------------------------------------------------------------
(* jsonapi.core.includer *)

\* The relationship descriptors of the includers registered on the API,
\* as add_includer_method stores them: typename -> name -> descriptor.
\* remote_types is a list of typenames, or Unknown for remote_types=None.
Unknown == <<"?">>

IncluderRelationships ==
    [Post |-> [author   |-> [to_one |-> TRUE,  remote_types |-> <<"User">>],
               comments |-> [to_one |-> FALSE, remote_types |-> <<"Comment">>]],
     Comment |-> [author |-> [to_one |-> TRUE, remote_types |-> <<"User">>]],
     User |-> [posts    |-> [to_one |-> FALSE, remote_types |-> Unknown],
               drafts   |-> [to_one |-> FALSE, remote_types |-> <<>>],
               avatar   |-> [to_one |-> TRUE,  remote_types |-> <<"Image">>]]]

\* API._includer: the typenames that have an includer
IncluderTypes == DOMAIN IncluderRelationships

\* Relationship.get: the getter of the relationship name, read off resource r
RelationshipGet(r, name) ==
    CASE name = "author" /\ r \in DOMAIN author -> author[r]
      [] name = "comments" /\ r \in DOMAIN comments -> comments[r]
      [] name = "posts" -> {p \in Posts : author[p] = r}
      [] name \in {"drafts", "comments"} -> {}
      [] OTHER -> None

\* the resources related to r through the relationship name
RelatedThrough(r, name) ==
    IF name \notin DOMAIN IncluderRelationships[r.type] THEN {}
    ELSE IF IncluderRelationships[r.type][name].to_one
    THEN {RelationshipGet(r, name)} \ {None}
    ELSE RelationshipGet(r, name)

\* Includer.path_exists: "True", "False" or the exception it raises
RECURSIVE path_exists(_, _)
RECURSIVE path_exists_remote(_, _, _)
path_exists(typename, path) ==
    IF path = <<>> THEN "ValueError"          \* name, *path = []
    ELSE LET name == Head(path)
             rest == Tail(path)
             rels == IncluderRelationships[typename]
         IN IF name \notin DOMAIN rels THEN "False"
            ELSE IF rels[name].remote_types = Unknown THEN "True"
            ELSE path_exists_remote(rels[name].remote_types, 1, rest)

\* the loop of path_exists over relationship.remote_types, from index i on
path_exists_remote(remote_types, i, rest) ==
    IF i > Len(remote_types) THEN "True"
    ELSE IF remote_types[i] \notin IncluderTypes THEN "KeyError"
    ELSE LET r == path_exists(remote_types[i], rest)
         IN IF r = "True" THEN path_exists_remote(remote_types, i + 1, rest)
            ELSE r

\* One call of a relationship getter or of a storage operation
Call(op, res, name) == [op |-> op, res |-> res, name |-> name]

\* The getter calls one fetch_path makes, in order
GetterCalls(resources, name) ==
    [i \in 1..Len(resources) |-> Call("getter", resources[i], name)]

\* Includer.fetch_path on the includer of typename.  The result carries the
\* getter calls made.
fetch_path(typename, resources, path) ==
    LET name == Head(path)
        rels == IncluderRelationships[typename]
    IN IF name \notin DOMAIN rels
       THEN [raised |-> "KeyError", value |-> {}, calls |-> <<>>]
       ELSE IF rels[name].to_one
       THEN [raised |-> "none",
             value |-> {RelationshipGet(r, name) : r \in Range(resources)}
                          \ {None},
             calls |-> GetterCalls(resources, name)]
       ELSE [raised |-> "none",
             value |-> UNION {RelationshipGet(r, name) : r \in Range(resources)},
             calls |-> GetterCalls(resources, name)]

\* Includer.fetch_paths: the union of fetch_path over the paths, in order;
\* an exception of fetch_path ends the call
RECURSIVE fetch_paths_from(_, _, _, _, _)
fetch_paths_from(typename, resources, paths, related, calls) ==
    IF paths = <<>>
    THEN [raised |-> "none", value |-> related, calls |-> calls]
    ELSE LET r == fetch_path(typename, resources, Head(paths))
         IN IF r.raised # "none"
            THEN [raised |-> r.raised, value |-> {}, calls |-> calls]
            ELSE fetch_paths_from(typename, resources, Tail(paths),
                                  related \cup r.value, calls \o r.calls)

fetch_paths(typename, resources, paths) ==
    fetch_paths_from(typename, resources, paths, {}, <<>>)

-----------------------------------------------------------------------------
(* jsonapi.errors *)

\* The subclasses of Error the model raises, with the http_status their
\* constructor sets
ErrorHttpStatus ==
    [BadRequest |-> 400, Forbidden |-> 403, NotFound |-> 404,
     MethodNotAllowed |-> 405, UnsupportedMediaType |-> 415,
     InternalServerError |-> 500, InvalidDocument |-> 400,
     UnresolvableIncludePath |-> 400]

\* isinstance(exc, errors.Error); ErrorList derives from Exception only
IsError(exc) == exc \in DOMAIN ErrorHttpStatus

\* Error.json: status and title, and source.parameter when the error has a
\* source_parameter
ErrorJson(exc) ==
    IF exc = "UnresolvableIncludePath"
    THEN [status |-> ErrorHttpStatus[exc], title |-> exc,
          source |-> [parameter |-> "include"]]
    ELSE [status |-> ErrorHttpStatus[exc], title |-> exc]

\* A response: status, header names and the members of the body document
\* (<<>> when there is no body)
Response(status, headers, body) ==
    [raised |-> "none", status |-> status, headers |-> headers, body |-> body]

\* An exception leaving a call
Raised(exc) == [raised |-> exc, status |-> 0, headers |-> {}, body |-> <<>>]

\* error_to_response with the status of the response fixed to 500
error_to_response_status500(exc) ==
    Response(500, {"content-type"}, [errors |-> <<ErrorJson(exc)>>])

\* error_to_response for an Error
error_to_response(exc) ==
    Response(ErrorHttpStatus[exc], {"content-type"},
             [errors |-> <<ErrorJson(exc)>>])

-----------------------------------------------------------------------------
(* jsonapi.core.api: the handler registry and the routing *)

\* A path is the sequence of its segments below the root uri of the API;
\* "<comments" is the segment "comments" with the character "<" before it.

\* the segment starts with "<" and at least one more character follows
HasLt(seg) == seg \in {"<comments", "<author"}

\* the segment without its first character "<"
StripLt(seg) ==
    CASE seg = "<comments" -> "comments"
      [] seg = "<author" -> "author"
      [] OTHER -> seg

\* A handler object: its class and the typename and relationship name it was
\* constructed for
Handler(cls, typename, relname) ==
    [cls |-> cls, typename |-> typename, relname |-> relname]

\* no handler: dict.get returns None
NoHandler == Handler("None", "", "")

\* no relationship name given to add_handler
NoRel == ""

\* dict lookup with None for a missing key
DictGet(d, k) == IF k \in DOMAIN d THEN d[k] ELSE NoHandler

\* API.add_handler: the registry after the call
add_handler(reg, handler, typename, endpoint_type, relname) ==
    IF endpoint_type \in {"collection", "resource"}
    THEN (<<typename, endpoint_type>> :> handler) @@ reg
    ELSE IF endpoint_type \in {"relationship", "related"}
    THEN (<<typename, endpoint_type, relname>> :> handler) @@ reg
    ELSE reg

\* API._get_handler: the four regular expressions, tried in order, on the
\* segments of the path.  Returns the matched endpoint type, the captured
\* groups (written to request.japi_uri_arguments) and the handler found.
NoArgs == <<>>

get_handler(reg, path) ==
    IF Len(path) = 1
    THEN [endpoint |-> "collection",
          args |-> [type |-> path[1]],
          handler |-> DictGet(reg, <<path[1], "collection">>)]
    ELSE IF Len(path) = 2
    THEN [endpoint |-> "resource",
          args |-> [type |-> path[1], id |-> path[2]],
          handler |-> DictGet(reg, <<path[1], "resource">>)]
    ELSE IF Len(path) = 4 /\ path[3] = "relationships" /\ HasLt(path[4])
    THEN [endpoint |-> "relationship",
          args |-> [type |-> path[1], id |-> path[2],
                    relname |-> StripLt(path[4])],
          handler |-> DictGet(reg, <<path[1], "relationship",
                                     StripLt(path[4])>>)]
    ELSE IF Len(path) = 3 /\ HasLt(path[3])
    THEN [endpoint |-> "related",
          args |-> [type |-> path[1], id |-> path[2],
                    relname |-> StripLt(path[3])],
          handler |-> DictGet(reg, <<path[1], "related", StripLt(path[3])>>)]
    ELSE [endpoint |-> "none", args |-> NoArgs, handler |-> NoHandler]

-----------------------------------------------------------------------------
(* jsonapi.core.handler and jsonapi.schema.handler *)

\* the handler classes of jsonapi.core.handler
CoreHandlerClasses ==
    {"CollectionHandler", "ResourceHandler", "ToOneRelationshipHandler",
     "ToManyRelationshipHandler", "ToOneRelatedHandler",
     "ToManyRelatedHandler"}

\* the handler classes of jsonapi.schema.handler
SchemaHandlerClasses ==
    {"schema.Collection", "schema.Resource", "schema.ToOneRelationship",
     "schema.ToManyRelationship", "schema.ToOneRelated",
     "schema.ToManyRelated"}

\* the verbs Handler.handle dispatches on
HandlerVerbs == {"delete", "get", "head", "post", "patch", "options"}

\* Request.method: the HTTP method in lower case
Methods == HandlerVerbs \cup {"put"}

JsonApiMediaType == "application/vnd.api+json"
ContentTypes == {JsonApiMediaType, "application/json"}

\* CoreImplemented with post and delete left out of
\* ToManyRelationshipHandler
CoreImplemented_ToManyLikeToOne(cls) ==
    CASE cls = "CollectionHandler" -> {"get", "post"}
      [] cls = "ResourceHandler" -> {"get", "patch", "delete"}
      [] cls = "ToOneRelationshipHandler" -> {"get", "patch"}
      [] cls = "ToManyRelationshipHandler" -> {"get", "patch"}
      [] cls = "ToOneRelatedHandler" -> {"get"}
      [] cls = "ToManyRelatedHandler" -> {"get"}
      [] OTHER -> {}

\* The verbs whose method a handler class of jsonapi.core.handler overrides;
\* every other method is the one of Handler, which raises MethodNotAllowed.
CoreImplemented(cls) ==
    CASE cls = "CollectionHandler" -> {"get", "post"}
      [] cls = "ResourceHandler" -> {"get", "patch", "delete"}
      [] cls = "ToOneRelationshipHandler" -> {"get", "patch"}
      [] cls = "ToManyRelationshipHandler" -> {"get", "patch", "post", "delete"}
      [] cls = "ToOneRelatedHandler" -> {"get"}
      [] cls = "ToManyRelatedHandler" -> {"get"}
      [] OTHER -> {}

\* the same for the handler classes of jsonapi.schema.handler
SchemaImplemented(cls) ==
    CASE cls = "schema.Collection" -> {"get", "post"}
      [] cls = "schema.Resource" -> {"get", "patch", "delete"}
      [] cls = "schema.ToOneRelationship" -> {"get", "patch"}
      [] cls = "schema.ToManyRelationship" -> {"get", "patch", "post", "delete"}
      [] cls = "schema.ToOneRelated" -> {"get"}
      [] cls = "schema.ToManyRelated" -> {"get"}
      [] OTHER -> {}

Implemented(cls) ==
    IF cls \in CoreHandlerClasses THEN CoreImplemented(cls)
    ELSE SchemaImplemented(cls)

\* What one handler method does, step by step:
\*   ct        it checks request.content_type first (UnsupportedMediaType)
\*   validate  it validates request.json before the storage call
\*   early     the exception the call of the storage method itself raises
\*   op        the storage method of the Type or Schema it calls
\*   byid      the storage method loads the resource of the id in the URI
\*   include   how it fetches the included resources
\*   late      the exception raised after the storage call returned
\*   builder   the shape of the document
\*   status    the status of the response
\*   location  the response carries the location header
Step(ct, validate, early, op, byid, include, late, builder, status, location) ==
    [ct |-> ct, validate |-> validate, early |-> early, op |-> op,
     byid |-> byid, include |-> include, late |-> late, builder |-> builder,
     status |-> status, location |-> location]

\* the methods of the handlers of jsonapi.core.handler.  They call
\* validation.assert_... and API.get_included, which are defined outside of
\* the modules modelled here: the validation raises InvalidDocument for an
\* invalid document, get_included adds no call of its own.
CorePlan(cls, method) ==
    CASE cls = "CollectionHandler" /\ method = "get" ->
            Step(FALSE, FALSE, "none", "get_collection", FALSE,
                 "get_included", "none", "collection", 200, FALSE)
      [] cls = "CollectionHandler" /\ method = "post" ->
            Step(TRUE, TRUE, "none", "create_resource", FALSE,
                 "get_included", "none", "resource", 201, TRUE)
      [] cls = "ResourceHandler" /\ method = "get" ->
            Step(FALSE, FALSE, "none", "get_resource", TRUE,
                 "get_included", "none", "resource", 200, FALSE)
      [] cls = "ResourceHandler" /\ method = "patch" ->
            Step(TRUE, TRUE, "none", "update_resource", TRUE,
                 "get_included", "none", "resource", 200, FALSE)
      [] cls = "ResourceHandler" /\ method = "delete" ->
            Step(FALSE, FALSE, "none", "delete_resource", TRUE,
                 "none", "none", "empty", 204, FALSE)
      [] cls \in {"ToOneRelationshipHandler", "ToManyRelationshipHandler"}
         /\ method = "get" ->
            Step(FALSE, FALSE, "none", "get_resource", TRUE,
                 "none", "none", "relationship", 200, FALSE)
      [] cls \in {"ToOneRelationshipHandler", "ToManyRelationshipHandler"}
         /\ method = "patch" ->
            Step(TRUE, TRUE, "none", "update_relationship", TRUE,
                 "none", "none", "relationship", 200, FALSE)
      [] cls = "ToManyRelationshipHandler" /\ method = "post" ->
            Step(TRUE, TRUE, "none", "extend_relationship", TRUE,
                 "none", "none", "relationship", 200, FALSE)
      [] cls = "ToManyRelationshipHandler" /\ method = "delete" ->
            Step(TRUE, TRUE, "none", "remove_relationship", TRUE,
                 "none", "none", "relationship", 200, FALSE)
      [] cls = "ToOneRelatedHandler" /\ method = "get" ->
            Step(FALSE, FALSE, "none", "get_related", TRUE,
                 "get_included", "none", "resource", 200, FALSE)
      [] cls = "ToManyRelatedHandler" /\ method = "get" ->
            Step(FALSE, FALSE, "none", "get_related", TRUE,
                 "get_included", "none", "collection", 200, FALSE)

\* the methods of the handlers of jsonapi.schema.handler
SchemaPlan(cls, method) ==
      \* schema.get_collection(request): get_collection(self, *, request)
      \* takes no positional argument
    CASE cls = "schema.Collection" /\ method = "get" ->
            Step(FALSE, FALSE, "TypeError", "get_collection", FALSE,
                 "fetch_include", "none", "collection", 200, FALSE)
      [] cls = "schema.Collection" /\ method = "post" ->
            Step(FALSE, FALSE, "none", "create_resource", FALSE,
                 "fetch_include", "none", "resource", 200, TRUE)
      \* schema.get_resource(resource_id, request.japi_include, request=...):
      \* get_resource(self, id_, *, request, include=None) takes one
      \* positional argument
      [] cls = "schema.Resource" /\ method = "get" ->
            Step(FALSE, FALSE, "TypeError", "get_resource", TRUE,
                 "fetch_include", "none", "resource", 200, FALSE)
      [] cls = "schema.Resource" /\ method = "patch" ->
            Step(FALSE, FALSE, "none", "update_resource", TRUE,
                 "fetch_include", "none", "resource", 200, FALSE)
      \* return Response(status=204): the module does not import Response
      [] cls = "schema.Resource" /\ method = "delete" ->
            Step(FALSE, FALSE, "none", "delete_resource", TRUE,
                 "none", "NameError", "empty", 204, FALSE)
      [] cls \in {"schema.ToOneRelationship", "schema.ToManyRelationship"}
         /\ method = "get" ->
            Step(FALSE, FALSE, "none", "get_resource", TRUE,
                 "none", "none", "relationship", 200, FALSE)
      [] cls \in {"schema.ToOneRelationship", "schema.ToManyRelationship"}
         /\ method = "patch" ->
            Step(FALSE, FALSE, "none", "update_relationship", TRUE,
                 "none", "none", "relationship", 200, FALSE)
      [] cls = "schema.ToManyRelationship" /\ method = "post" ->
            Step(FALSE, FALSE, "none", "add_relationship", TRUE,
                 "none", "none", "relationship", 200, FALSE)
      [] cls = "schema.ToManyRelationship" /\ method = "delete" ->
            Step(FALSE, FALSE, "none", "delete_relationship", TRUE,
                 "none", "none", "relationship", 200, FALSE)
      [] cls = "schema.ToOneRelated" /\ method = "get" ->
            Step(FALSE, FALSE, "none", "get_related", TRUE,
                 "fetch_include", "none", "resource", 200, FALSE)
      [] cls = "schema.ToManyRelated" /\ method = "get" ->
            Step(FALSE, FALSE, "none", "get_related", TRUE,
                 "fetch_include", "none", "collection", 200, FALSE)

Plan(cls, method) ==
    IF cls \in CoreHandlerClasses THEN CorePlan(cls, method)
    ELSE SchemaPlan(cls, method)

\* The storage of the application holds the resources with id 1
StoredResource(typename, id) ==
    IF id = "1" /\ Res(typename, 1, 1) \in Resources
    THEN Res(typename, 1, 1) ELSE None

\* the resource a create_resource call returns: a new id
CreatedResource(typename) ==
    Res(typename, Cardinality({r \in Resources : r.type = typename}) + 1, 1)

\* The primary data a storage method returns, as a list of resources
PrimaryData(op, typename, args) ==
    CASE op = "get_collection" ->
            SetToSeq({r \in Resources : r.type = typename /\ r.copy = 1})
      [] op = "create_resource" -> <<CreatedResource(typename)>>
      [] op = "get_related" ->
            SetToSeq(RelatedThrough(StoredResource(typename, args.id),
                                    args.relname))
      [] OTHER -> <<StoredResource(typename, args.id)>>

\* The environment of one request: the exception, if any, that the
\* prepare_request hook or the storage method of the application raises
NoFault == [at |-> "none", exc |-> "none"]
Fault(at, exc) == [at |-> at, exc |-> exc]

\* API.jsonapi_object
JsonApiObject == [version |-> "1.0"]

\* What a call of Handler.handle or API.handle_request did: the captured
\* URI arguments, the handler and the method of it that was invoked, the
\* storage and getter calls made, and the response or the exception (out)
Result(args, handler, invoked, calls, out) ==
    [args |-> args, handler |-> handler, invoked |-> invoked,
     calls |-> calls, out |-> out]

\* API.serialize_many, reduced to the type and id members
SerializeMany(resources) ==
    [i \in 1..Len(resources) |-> ensure_identifier(resources[i])]

\* IncludeMixin.fetch_include, respectively API.get_included, for the
\* primary data of the type typename
FetchIncluded(how, typename, data, include) ==
    IF how = "fetch_include" /\ typename \in IncluderTypes
    THEN fetch_paths(typename, data, include)
    ELSE [raised |-> "none", value |-> {}, calls |-> <<>>]

\* The document a handler renders
Document(plan, data, included) ==
    CASE plan.builder = "empty" -> <<>>
      [] plan.builder = "relationship" ->
            [jsonapi |-> JsonApiObject, links |-> "links", data |-> "linkage"]
      [] plan.include = "get_included" ->
            [data |-> SerializeMany(data),
             included |-> SerializeMany(SetToSeq(included)),
             jsonapi |-> JsonApiObject]
      [] included = {} ->
            [jsonapi |-> JsonApiObject, data |-> SerializeMany(data)]
      [] OTHER ->
            [jsonapi |-> JsonApiObject, data |-> SerializeMany(data),
             included |-> SerializeMany(SetToSeq(included))]

\* the headers of the response of a handler
Headers(plan) ==
    IF plan.location THEN {"content-type", "location"} ELSE {"content-type"}

\* One handler method: the steps of its plan, in order
RunPlan(plan, handler, args, request, fault) ==
    LET typename == handler.typename
        opcall == <<Call(plan.op, None, "")>>
        data == PrimaryData(plan.op, typename, args)
        inc_ == FetchIncluded(plan.include, typename, data, request.include)
        Done(calls, out) == Result(args, handler, request.method, calls, out)
    IN  IF plan.ct /\ request.content_type # JsonApiMediaType
        THEN Done(<<>>, Raised("UnsupportedMediaType"))
        ELSE IF plan.validate /\ ~request.valid
        THEN Done(<<>>, Raised("InvalidDocument"))
        ELSE IF plan.early # "none"
        THEN Done(<<>>, Raised(plan.early))
        ELSE IF fault.at = "storage"
        THEN Done(opcall, Raised(fault.exc))
        ELSE IF plan.byid /\ StoredResource(typename, args.id) = None
        THEN Done(opcall, Raised("AssertionError"))
        ELSE IF inc_.raised # "none"
        THEN Done(opcall \o inc_.calls, Raised(inc_.raised))
        ELSE IF plan.late # "none"
        THEN Done(opcall \o inc_.calls, Raised(plan.late))
        ELSE Done(opcall \o inc_.calls,
                  Response(plan.status, Headers(plan),
                           Document(plan, data, inc_.value)))

\* Handler.handle: the method it invokes for request.method, and the outcome
handle(handler, args, request, fault) ==
    IF request.method \notin HandlerVerbs
    THEN Result(args, handler, "none", <<>>, Raised("MethodNotAllowed"))
    ELSE IF request.method \notin Implemented(handler.cls)
    THEN Result(args, handler, request.method, <<>>,
                Raised("MethodNotAllowed"))
    ELSE RunPlan(Plan(handler.cls, request.method), handler, args, request,
                 fault)

\* The try block of API.handle_request: prepare_request, _get_handler and
\* Handler.handle
handle_request_try(reg, request, fault) ==
    LET route == get_handler(reg, request.path)
    IN  IF fault.at = "prepare"
        THEN Result(NoArgs, NoHandler, "none", <<>>, Raised(fault.exc))
        ELSE IF route.handler = NoHandler
        THEN Result(route.args, NoHandler, "none", <<>>, Raised("NotFound"))
        ELSE handle(route.handler, route.args, request, fault)

\* API.handle_request: an Error is converted to a response unless the API
\* is in debug mode; every other exception leaves the call
handle_request(reg, dbg, request, fault) ==
    [handle_request_try(reg, request, fault) EXCEPT
        !.out = IF IsError(@.raised) /\ ~dbg
                THEN error_to_response(@.raised) ELSE @]

-----------------------------------------------------------------------------
(* The inputs of the includer calls *)

\* include paths as Request.japi_include produces them: non-empty lists
IncludePaths ==
    {<<"author">>, <<"comments">>, <<"comments", "author">>,
     <<"author", "posts">>, <<"nonexistent">>, <<"comments", "nonexistent">>,
     <<"author", "drafts">>, <<"author", "avatar">>}

RECURSIVE SeqsUpTo(_, _)
SeqsUpTo(S, n) ==
    IF n = 0 THEN {<<>>}
    ELSE LET shorter == SeqsUpTo(S, n - 1)
         IN shorter \cup {Append(s, x) : s \in shorter, x \in S}

IncludeLists == SeqsUpTo(IncludePaths, MaxPaths)

\* lists of primary resources of one type
PrimaryLists(typename) ==
    {SetToSeq(S) : S \in SUBSET {r \in Resources : r.type = typename}}

\* the types whose resources are the primary data of the includer calls
PrimaryTypes == {"Post", "Comment"}

NoCall == [op |-> "none"]

\* API.__init__: no encoder is registered, no get_encoder call was made
NoTypes ==
    [encoder |-> <<>>, resource_class_to_encoder |-> <<>>, got |-> NoCall]

\* A resource graph: every Post and Comment has an author or None, every
\* Post a list of comments
InitGraph ==
    /\ author \in [Posts \cup Comments -> Users \cup {None}]
    /\ comments \in [Posts -> SUBSET Comments]

\* The graph of the request handling specifications
FixedGraph ==
    /\ author = [r \in Posts \cup Comments |->
                    IF r \in Posts THEN Res("User", 1, 1)
                    ELSE IF r.id = 1 THEN Res("User", 1, NumCopies)
                    ELSE None]
    /\ comments = [p \in Posts |-> Comments]

InitRest ==
    /\ registry = NoTypes
    /\ walk = NoCall
    /\ rb = NoCall
    /\ upd = NoCall
    /\ inc = NoCall
    /\ handlers = <<>>
    /\ debug \in BOOLEAN
    /\ resp = NoCall
    /\ hcall = NoCall
    /\ enc = NoCall
    /\ pager = NoCall
    /\ req = NoCall
    /\ val = NoCall

InitIncluder == InitGraph /\ InitRest /\ debug = TRUE

\* The caller of the includer is sequential: it makes one call, takes the
\* result (IncluderReturn) and only then makes the next call.
FetchPaths ==
    /\ inc = NoCall
    /\ \E typename \in PrimaryTypes, paths \in IncludeLists :
         \E resources \in PrimaryLists(typename) :
            inc' = [op |-> "fetch_paths", type |-> typename,
                    resources |-> resources, paths |-> paths,
                    result |-> fetch_paths(typename, resources, paths)]
    /\ UNCHANGED <<graphVars, apiVars, hcall, enc, pager, req, val, upd, rb,
                   walk, registry>>

FetchPath ==
    /\ inc = NoCall
    /\ \E typename \in PrimaryTypes, path \in IncludePaths :
         \E resources \in PrimaryLists(typename) :
            inc' = [op |-> "fetch_path", type |-> typename,
                    resources |-> resources, paths |-> <<path>>,
                    result |-> fetch_path(typename, resources, path)]
    /\ UNCHANGED <<graphVars, apiVars, hcall, enc, pager, req, val, upd, rb,
                   walk, registry>>

PathExists ==
    /\ inc = NoCall
    /\ \E typename \in IncluderTypes, path \in IncludePaths :
         inc' = [op |-> "path_exists", type |-> typename,
                 resources |-> <<>>, paths |-> <<path>>,
                 result |-> path_exists(typename, path)]
    /\ UNCHANGED <<graphVars, apiVars, hcall, enc, pager, req, val, upd, rb,
                   walk, registry>>

IncluderReturn ==
    /\ inc # NoCall
    /\ inc' = NoCall
    /\ UNCHANGED <<graphVars, apiVars, hcall, enc, pager, req, val, upd, rb,
                   walk, registry>>

NextIncluder == FetchPaths \/ FetchPath \/ PathExists \/ IncluderReturn

SpecIncluder == InitIncluder /\ [][NextIncluder]_vars

-----------------------------------------------------------------------------
(* The API: registering handlers and handling requests *)

\* The add_handler calls of the application: handler, typename,
\* endpoint_type and relname.  The last one passes the enumeration member.
HandlerDecls ==
    {<<Handler("schema.Collection", "Post", NoRel),
       "Post", "collection", NoRel>>,
     <<Handler("schema.Resource", "Post", NoRel),
       "Post", "resource", NoRel>>,
     <<Handler("schema.ToManyRelationship", "Post", "comments"),
       "Post", "relationship", "comments">>,
     <<Handler("schema.ToOneRelationship", "Post", "author"),
       "Post", "relationship", "author">>,
     <<Handler("schema.ToManyRelated", "Post", "comments"),
       "Post", "related", "comments">>,
     <<Handler("schema.Collection", "User", NoRel),
       "User", "EndpointTypes.Collection", NoRel>>}

\* the paths of the requests, as segments below the root uri of the API
RequestPaths ==
    {<<"Post">>, <<"Post", "1">>, <<"Post", "2">>, <<"User">>,
     <<"Post", "1", "relationships", "comments">>,
     <<"Post", "1", "relationships", "author">>,
     <<"Post", "1", "comments">>,
     <<"Post", "1", "relationships", "<comments">>,
     <<"Post", "1", "<comments">>,
     <<"Post", "1", "relationships">>}

\* the values of the include parameter of the requests
RequestIncludes ==
    {<<>>, <<<<"author">>>>, <<<<"nonexistent">>>>,
     <<<<"author">>, <<"nonexistent">>>>,
     <<<<"nonexistent">>, <<"author">>>>,
     <<<<"comments">>, <<"author">>>>}

\* the exceptions of the environment
FaultExceptions == {"NotFound", "Forbidden", "KeyError", "ErrorList"}

RequestFaults ==
    {NoFault} \cup {Fault(at, exc) : at \in {"prepare", "storage"},
                                     exc \in FaultExceptions}

Request(path, method, content_type, include, valid) ==
    [path |-> path, method |-> method, content_type |-> content_type,
     include |-> include, valid |-> valid]

InitAPI == FixedGraph /\ InitRest

AddHandler ==
    /\ resp = NoCall
    /\ \E decl \in HandlerDecls :
         handlers' = add_handler(handlers, decl[1], decl[2], decl[3], decl[4])
    /\ UNCHANGED <<graphVars, inc, debug, resp, hcall, enc, pager, req, val,
                   upd, rb, walk, registry>>

\* The server is sequential: it handles one request and hands the response
\* back (SendResponse) before it takes the next one or registers a handler.
HandleRequest ==
    /\ resp = NoCall
    /\ \E path \in RequestPaths, method \in Methods,
          include \in RequestIncludes, fault \in RequestFaults :
         LET request == Request(path, method, JsonApiMediaType, include, TRUE)
         IN resp' = [op |-> "handle_request", request |-> request,
                     fault |-> fault,
                     result |-> handle_request(handlers, debug, request,
                                               fault)]
    /\ UNCHANGED <<graphVars, inc, handlers, debug, hcall, enc, pager, req,
                   val, upd, rb, walk, registry>>

SendResponse ==
    /\ resp # NoCall
    /\ resp' = NoCall
    /\ UNCHANGED <<graphVars, inc, handlers, debug, hcall, enc, pager, req,
                   val, upd, rb, walk, registry>>

NextAPI == AddHandler \/ HandleRequest \/ SendResponse

SpecAPI == InitAPI /\ [][NextAPI]_vars

-----------------------------------------------------------------------------
(* Handler.handle called on a handler directly *)

\* request.japi_uri_arguments of a request for the endpoint of the handler
ArgsFor(handler) ==
    IF handler.cls \in {"CollectionHandler", "schema.Collection"}
    THEN [type |-> handler.typename]
    ELSE IF handler.cls \in {"ResourceHandler", "schema.Resource"}
    THEN [type |-> handler.typename, id |-> "1"]
    ELSE [type |-> handler.typename, id |-> "1", relname |-> handler.relname]

\* the relationship a handler class is constructed for
RelnameFor(cls) ==
    CASE cls \in {"ToOneRelationshipHandler", "ToOneRelatedHandler",
                  "schema.ToOneRelationship", "schema.ToOneRelated"} -> "author"
      [] cls \in {"ToManyRelationshipHandler", "ToManyRelatedHandler",
                  "schema.ToManyRelationship", "schema.ToManyRelated"}
            -> "comments"
      [] OTHER -> NoRel

HandlerObjects ==
    {Handler(cls, "Post", RelnameFor(cls)) :
        cls \in CoreHandlerClasses \cup SchemaHandlerClasses}

\* The requests of the core handlers carry no include parameter.
HandlerIncludes(handler) ==
    IF handler.cls \in CoreHandlerClasses THEN {<<>>} ELSE RequestIncludes

HandlerFaults ==
    {NoFault} \cup {Fault("storage", exc) : exc \in FaultExceptions}

InitHandler == FixedGraph /\ InitRest /\ debug = TRUE

HandlerHandle ==
    /\ hcall = NoCall
    /\ \E handler \in HandlerObjects, method \in Methods,
          content_type \in ContentTypes, valid \in BOOLEAN,
          fault \in HandlerFaults :
         \E include \in HandlerIncludes(handler) :
            LET request == Request(<<>>, method, content_type, include, valid)
            IN hcall' = [op |-> "handle", handler |-> handler,
                         request |-> request, fault |-> fault,
                         result |-> handle(handler, ArgsFor(handler), request,
                                           fault)]
    /\ UNCHANGED <<graphVars, inc, apiVars, enc, pager, req, val, upd, rb,
                   walk, registry>>

HandlerReturn ==
    /\ hcall # NoCall
    /\ hcall' = NoCall
    /\ UNCHANGED <<graphVars, inc, apiVars, enc, pager, req, val, upd, rb,
                   walk, registry>>

NextHandler == HandlerHandle \/ HandlerReturn

SpecHandler == InitHandler /\ [][NextHandler]_vars

-----------------------------------------------------------------------------
(* jsonapi.encoder and jsonapi.base.schema.type: relationship objects *)

\* JSON values: null, an object with its members, an array with its items
JNull == [json |-> "null", members |-> <<>>, items |-> <<>>]
JObject(members) == [json |-> "object", members |-> members, items |-> <<>>]
JArray(items) == [json |-> "array", members |-> <<>>, items |-> items]

\* What a relationship getter returns: None, the sentinel (Omit for an
\* encoder method, RelationshipNotLoaded for a Type), a resource object, a
\* (typename, id) tuple, an identifier document, a list of those, or the
\* tuple (list, pagination)
Value(kind, type, id, items) ==
    [kind |-> kind, type |-> type, id |-> id, items |-> items]

PyNone == Value("None", "", 0, <<>>)
Sentinel == Value("sentinel", "", 0, <<>>)
IdentifierKinds == {"resource", "tuple", "dict"}
PyList(items) == Value("list", "", 0, items)
Paginated(items) == Value("paginated", "", 0, items)
PaginationObject == Value("pagination", "", 0, <<>>)

\* API.ensure_identifier_object; a value that is no tuple and no dict is
\* taken for a resource and looked up with get_encoder, which raises
\* TypeError for a list (unhashable) and KeyError for an unknown object
ensure_identifier_object(obj) ==
    CASE obj.kind = "tuple" ->
            [raised |-> "none",
             value |-> JObject([type |-> obj.type, id |-> obj.id])]
      [] obj.kind = "dict" ->
            [raised |-> "none",
             value |-> JObject([type |-> obj.type, id |-> obj.id])]
      [] obj.kind = "resource" ->
            [raised |-> "none",
             value |-> JObject([typename |-> obj.type, id |-> obj.id])]
      [] obj.kind = "list" -> [raised |-> "TypeError", value |-> JNull]
      [] OTHER -> [raised |-> "KeyError", value |-> JNull]

\* [ensure_identifier_object(item) for item in items]
RECURSIVE IdentifierObjects(_, _)
IdentifierObjects(items, done) ==
    IF items = <<>> THEN [raised |-> "none", value |-> JArray(done)]
    ELSE LET o == ensure_identifier_object(Head(items))
         IN IF o.raised # "none" THEN o
            ELSE IdentifierObjects(Tail(items), Append(done, o.value))

\* Relationship.links: the self and related links
RelationshipLinks == JObject([self |-> "self", related |-> "related"])

\* the relationship object with the member data, if the conversion of the
\* linkage did not raise
WithData(linkage) ==
    IF linkage.raised # "none"
    THEN [raised |-> linkage.raised, value |-> <<>>]
    ELSE [raised |-> "none",
          value |-> [data |-> linkage.value, links |-> RelationshipLinks]]

WithoutData == [raised |-> "none", value |-> [links |-> RelationshipLinks]]

\* encoder.ToOneRelationship.encode for what the encoder method returned.
\* A dict is taken for the relationship object itself.
ToOneRelationship_encode(d) ==
    CASE d.kind = "None" ->
            WithData([raised |-> "none", value |-> JNull])
      [] d.kind = "sentinel" -> WithoutData
      [] d.kind = "dict" ->
            [raised |-> "none",
             value |-> [type |-> d.type, id |-> d.id,
                        links |-> RelationshipLinks]]
      [] OTHER -> WithData(ensure_identifier_object(d))

\* encoder.ToManyRelationship.encode: for the tuple (list, pagination) it
\* iterates over the tuple itself
ToManyRelationship_encode(d) ==
    CASE d.kind = "sentinel" -> WithoutData
      [] d.kind = "paginated" ->
            WithData(IdentifierObjects(<<PyList(d.items), PaginationObject>>,
                                       <<>>))
      [] OTHER -> WithData(IdentifierObjects(d.items, <<>>))

\* Type.serialize_relationship (jsonapi.base.schema.type)
serialize_relationship(to_one, data, require_data) ==
    IF require_data /\ data.kind = "sentinel"
    THEN [raised |-> "AssertionError", value |-> <<>>]
    ELSE IF data.kind = "sentinel" THEN WithoutData
    ELSE IF to_one
    THEN IF data.kind = "None"
         THEN WithData([raised |-> "none", value |-> JNull])
         ELSE WithData(ensure_identifier_object(data))
    ELSE WithData(IdentifierObjects(data.items, <<>>))

\* the typenames of the related resources
RemoteTypes == {"User", "Comment"}

\* what a to-one getter returns
ToOneValues ==
    {PyNone, Sentinel} \cup
    {Value(kind, type, id, <<>>) :
        kind \in IdentifierKinds, type \in RemoteTypes, id \in 1..MaxItems}

\* the lists a to-many getter returns: resources, tuples or identifier
\* documents with the ids 1..n
ToManyLists ==
    {[i \in 1..n |-> Value(kind, type, i, <<>>)] :
        kind \in IdentifierKinds, type \in RemoteTypes, n \in 0..MaxItems}

ToManyValues ==
    {Sentinel} \cup {PyList(items) : items \in ToManyLists}
               \cup {Paginated(items) : items \in ToManyLists}

\* the attributes a type or an encoder may declare, and the names a request
\* may list in fields[Type] ("author" names a relationship)
AttributeNames == {"title", "body", "votes"}
FieldNames == {"title", "body", "author"}

\* request.japi_fields.get(typename): None if the request has no fieldset
\* for the type, else the list of the names in it
NoFields == [given |-> FALSE, names |-> <<>>]
Fields(names) == [given |-> TRUE, names |-> names]
FieldSets ==
    {NoFields} \cup
    {Fields(names) :
        names \in UNION {[1..n -> FieldNames] : n \in 0..MaxFields}}

\* what the getter of the attribute name returns for the resource
AttributeGet(name) == name \o " of the resource"

\* serialize_attributes with the fieldset left out of account
serialize_attributes_all(attributes, fields) ==
    [name \in attributes |-> AttributeGet(name)]

\* Encoder.serialize_attributes and Type.serialize_attributes, for the
\* declared attributes and the value of request.japi_fields.get(typename)
serialize_attributes(attributes, fields) ==
    [name \in {n \in attributes :
                  ~fields.given \/ n \in Range(fields.names)} |->
        AttributeGet(name)]

InitEncoder == FixedGraph /\ InitRest /\ debug = TRUE

\* a relationship method of an Encoder serializes a relationship
EncoderEncode ==
    /\ enc = NoCall
    /\ \E to_one \in BOOLEAN, require_data \in BOOLEAN :
         \E d \in IF to_one THEN ToOneValues ELSE ToManyValues :
            enc' = [op |-> "encode", to_one |-> to_one, returned |-> d,
                    require_data |-> require_data,
                    result |-> IF to_one THEN ToOneRelationship_encode(d)
                               ELSE ToManyRelationship_encode(d)]
    /\ UNCHANGED <<graphVars, inc, apiVars, hcall, pager, req, val, upd, rb,
                   walk, registry>>

\* a Type serializes a relationship; its getters do not paginate
TypeSerializeRelationship ==
    /\ enc = NoCall
    /\ \E to_one \in BOOLEAN, require_data \in BOOLEAN :
         \E d \in IF to_one THEN ToOneValues
                  ELSE {v \in ToManyValues : v.kind # "paginated"} :
            enc' = [op |-> "serialize_relationship", to_one |-> to_one,
                    returned |-> d, require_data |-> require_data,
                    result |-> serialize_relationship(to_one, d,
                                                      require_data)]
    /\ UNCHANGED <<graphVars, inc, apiVars, hcall, pager, req, val, upd, rb,
                   walk, registry>>

\* an Encoder or a Type serializes the attributes of a resource
SerializeAttributes ==
    /\ enc = NoCall
    /\ \E attributes \in SUBSET AttributeNames, fields \in FieldSets :
         enc' = [op |-> "serialize_attributes", attributes |-> attributes,
                 fields |-> fields,
                 result |-> serialize_attributes(attributes, fields)]
    /\ UNCHANGED <<graphVars, inc, apiVars, hcall, pager, req, val, upd, rb,
                   walk, registry>>

EncoderReturn ==
    /\ enc # NoCall
    /\ enc' = NoCall
    /\ UNCHANGED <<graphVars, inc, apiVars, hcall, pager, req, val, upd, rb,
                   walk, registry>>

NextEncoder ==
    \/ EncoderEncode
    \/ TypeSerializeRelationship
    \/ SerializeAttributes
    \/ EncoderReturn

SpecEncoder == InitEncoder /\ [][NextEncoder]_vars

-----------------------------------------------------------------------------
(* jsonapi.pagination *)

\* int(a/b) for b > 0: the quotient truncated toward zero.  The true
\* division is exact enough for |a| < 2^53.
TruncDiv(a, b) == IF a >= 0 THEN a \div b ELSE -((-a) \div b)

\* The query strings of the uris given to the pagination helpers, as the
\* lists of their (name, value) pairs
PagerQueries ==
    {<<>>,
     <<<<"sort", "date">>>>,
     <<<<"sort", "date">>, <<"page[number]", "9">>, <<"page[size]", "9">>>>,
     <<<<"page[limit]", "9">>, <<"page[offset]", "9">>>>,
     <<<<"filter[name]", "">>, <<"sort", "date">>>>,
     <<<<"include", "author">>, <<"include", "comments">>>>}

\* the names of the pagination parameters
PageKeys == {"page[number]", "page[size]", "page[limit]", "page[offset]"}

\* the values a query string gives to a name, in their order
QueryValues(qs, name) ==
    LET named == SelectSeq(qs, LAMBDA p : p[1] = name)
    IN  [i \in 1..Len(named) |-> named[i][2]]

\* urllib.parse.parse_qs(query): a dictionary from every name to the list
\* of its values; blank values are not kept (keep_blank_values=False)
parse_qs(qs) ==
    LET kept == SelectSeq(qs, LAMBDA p : p[2] # "")
    IN  [name \in {kept[i][1] : i \in 1..Len(kept)} |->
            QueryValues(kept, name)]

\* BasePagination.page_link: a copy of the parsed query of the uri, updated
\* with page[key] = str(value) for the items of pagination and written
\* with urlencode(query, doseq=True), which writes name=value once for each
\* value of a list. The link is given as the values of each name in it.
page_link(query_uri, pagination) ==
    LET Key(key) == "page[" \o key \o "]"
        page == [k \in {Key(key) : key \in DOMAIN pagination} |->
                    <<ToString(pagination[
                        CHOOSE key \in DOMAIN pagination : Key(key) = k])>>]
    IN  page @@ query_uri

\* str(l) for a list l of strings
RECURSIVE PyStrItems(_)
PyStrItems(l) ==
    IF Len(l) = 1 THEN "'" \o l[1] \o "'"
    ELSE "'" \o l[1] \o "', " \o PyStrItems(Tail(l))

\* core.pagination.Pagination._page_link: the parsed query of the uri
\* itself, updated with page[number] and page[size] and written with
\* urlencode(query), which without doseq writes name=str(value) for every
\* item, the lists of parse_qs included. Both page parameters are
\* overwritten on every call, so that the update of the shared dictionary
\* does not show in a later link.
Pagination_page_link(query_uri, page_number, page_size) ==
    ("page[number]" :> <<ToString(page_number)>>
     @@ "page[size]" :> <<ToString(page_size)>>)
    @@ [name \in DOMAIN query_uri |-> <<"[" \o PyStrItems(query_uri[name])
                                        \o "]">>]

\* core.pagination.Pagination.json_links, with total_pages, has_prev and
\* has_next of the constructor
Pagination_json_links(query_uri, current_page, page_size, total_resources) ==
    LET total_pages == TruncDiv(total_resources, page_size)
    IN  [self |-> Pagination_page_link(query_uri, current_page, page_size),
         first |-> Pagination_page_link(query_uri, 0, page_size),
         last |-> Pagination_page_link(query_uri, total_pages, page_size)]
        @@ (IF current_page > 0
            THEN "prev" :> Pagination_page_link(query_uri, current_page - 1,
                                                page_size)
            ELSE <<>>)
        @@ (IF current_page < total_pages
            THEN "next" :> Pagination_page_link(query_uri, current_page + 1,
                                                page_size)
            ELSE <<>>)

\* last_page computed as int(total_resources/size)
last_page_of_total(size, total_resources) == TruncDiv(total_resources, size)

\* NumberSize.last_page
last_page(size, total_resources) == TruncDiv(total_resources - 1, size)

\* NumberSize.json_links
NumberSize_json_links(query, number, size, total_resources) ==
    [self |-> page_link(query, [number |-> number, size |-> size]),
     first |-> page_link(query, [number |-> 0, size |-> size]),
     last |-> page_link(query, [number |-> last_page(size, total_resources),
                                size |-> size])]
    @@ (IF number > 0
        THEN "prev" :> page_link(query, [number |-> number - 1,
                                         size |-> size])
        ELSE <<>>)
    @@ (IF number < last_page(size, total_resources)
        THEN "next" :> page_link(query, [number |-> number + 1,
                                         size |-> size])
        ELSE <<>>)

\* max(a, b)
Max(a, b) == IF a >= b THEN a ELSE b

\* LimitOffset.json_links
LimitOffset_json_links(query, limit, offset, total_resources) ==
    [self |-> page_link(query, [limit |-> limit, offset |-> offset]),
     first |-> page_link(query, [limit |-> limit, offset |-> 0]),
     last |-> page_link(query,
                 [limit |-> limit,
                  offset |-> TruncDiv(total_resources - 1, limit) * limit])]
    @@ (IF offset > 0
        THEN "prev" :> page_link(query, [limit |-> limit,
                                         offset |-> Max(offset - limit, 0)])
        ELSE <<>>)
    @@ (IF offset + limit < total_resources
        THEN "next" :> page_link(query, [limit |-> limit,
                                         offset |-> offset + limit])
        ELSE <<>>)

InitPagination == FixedGraph /\ InitRest /\ debug = TRUE

\* NumberSize(uri, number, size, total_resources) and its json_links(); the
\* constructor asserts number >= 0, size > 0 and total_resources >= 0
NewNumberSize ==
    /\ pager = NoCall
    /\ \E query \in PagerQueries, number \in -1..MaxNumber,
          size \in 0..MaxSize, total_resources \in -1..MaxTotal :
         pager' = [op |-> "NumberSize", query |-> query, number |-> number,
                   size |-> size, total_resources |-> total_resources,
                   result |->
                      IF number >= 0 /\ size > 0 /\ total_resources >= 0
                      THEN [raised |-> "none",
                            links |-> NumberSize_json_links(
                                         parse_qs(query), number, size,
                                         total_resources)]
                      ELSE [raised |-> "AssertionError", links |-> <<>>]]
    /\ UNCHANGED <<graphVars, inc, apiVars, hcall, enc, req, val, upd, rb,
                   walk, registry>>

\* LimitOffset(uri, limit, offset, total_resources) and its json_links();
\* the constructor asserts offset >= 0, total_resources >= 0 and limit > 0
NewLimitOffset ==
    /\ pager = NoCall
    /\ \E query \in PagerQueries, limit \in 0..MaxSize,
          offset \in -1..(MaxNumber * MaxSize),
          total_resources \in -1..MaxTotal :
         pager' = [op |-> "LimitOffset", query |-> query, limit |-> limit,
                   offset |-> offset, total_resources |-> total_resources,
                   result |->
                      IF offset >= 0 /\ total_resources >= 0 /\ limit > 0
                      THEN [raised |-> "none",
                            links |-> LimitOffset_json_links(
                                         parse_qs(query), limit, offset,
                                         total_resources)]
                      ELSE [raised |-> "AssertionError", links |-> <<>>]]
    /\ UNCHANGED <<graphVars, inc, apiVars, hcall, enc, req, val, upd, rb,
                   walk, registry>>

\* core.pagination.Pagination(uri, current_page, page_size,
\* total_resources) and its json_links; the constructor asserts
\* current_page >= 0, page_size >= 1 and total_resources >= 0
NewPagination ==
    /\ pager = NoCall
    /\ \E query \in PagerQueries, current_page \in -1..MaxNumber,
          page_size \in 0..MaxSize, total_resources \in -1..MaxTotal :
         pager' = [op |-> "Pagination", query |-> query,
                   number |-> current_page, size |-> page_size,
                   total_resources |-> total_resources,
                   result |->
                      IF current_page >= 0 /\ page_size >= 1
                         /\ total_resources >= 0
                      THEN [raised |-> "none",
                            links |-> Pagination_json_links(
                                         parse_qs(query), current_page,
                                         page_size, total_resources)]
                      ELSE [raised |-> "AssertionError", links |-> <<>>]]
    /\ UNCHANGED <<graphVars, inc, apiVars, hcall, enc, req, val, upd, rb,
                   walk, registry>>

PagerDiscard ==
    /\ pager # NoCall
    /\ pager' = NoCall
    /\ UNCHANGED <<graphVars, inc, apiVars, hcall, enc, req, val, upd, rb,
                   walk, registry>>

NextPagination ==
    NewNumberSize \/ NewLimitOffset \/ NewPagination \/ PagerDiscard

SpecPagination == InitPagination /\ [][NextPagination]_vars

-----------------------------------------------------------------------------
(* The query properties of a Request *)

\* the types a request may give a fieldset for
FieldsTypes == {"Post", "User"}

\* the values of a fields[Type] parameter
FieldsValues == {"", ",", "title", "title,body", " title "}

\* value[0].split(",") with every item stripped and the blank items
\* dropped, for the values of FieldsValues
type_fields(value) ==
    CASE value = "title" -> <<"title">>
      [] value = " title " -> <<"title">>
      [] value = "title,body" -> <<"title", "body">>
      [] OTHER -> <<>>

\* the name FIELDS_RE matches for a typename
FieldsKey(typename) == "fields[" \o typename \o "]"

\* the query strings of the requests whose fieldsets are read
FieldsQueries ==
    LET pairs == {<<"sort", "date">>} \cup
                 {<<FieldsKey(t), v>> : t \in FieldsTypes, v \in FieldsValues}
    IN  UNION {[1..n -> pairs] : n \in 0..MaxParams}

\* Request.japi_fields: for every name of Request.query (the dictionary of
\* parse_qs) that FIELDS_RE matches, the items of the first value
japi_fields(qs) ==
    LET query == parse_qs(qs)
    IN  [typename \in {t \in FieldsTypes : FieldsKey(t) \in DOMAIN query} |->
            type_fields(query[FieldsKey(typename)][1])]

\* the values of the parameters page[number] and page[size]
PageValues == {"", "0", "2", "-1", "x"}

\* str.isdigit and int for these values
isdigit(value) == value \in {"0", "2"}
int(value) == IF value = "2" THEN 2 ELSE 0

\* the query strings of the requests whose pagination is read: every
\* parameter at most once
PageQueries ==
    LET pairs == {<<"sort", "date">>} \cup
                 {<<name, v>> : name \in {"page[number]", "page[size]"},
                                v \in PageValues}
    IN  {qs \in UNION {[1..n -> pairs] : n \in 0..MaxParams} :
            \A i, j \in DOMAIN qs : qs[i][1] = qs[j][1] => i = j}

\* Request.get_query_argument(name): the first value of the parameter in
\* Request.query as a list of one string, the empty list for None
get_query_argument(qs, name) ==
    IF name \in DOMAIN parse_qs(qs) THEN <<parse_qs(qs)[name][1]>> ELSE <<>>

\* what a pagination property of the request returns or raises
PageNone == [raised |-> "none", parameter |-> "", none |-> TRUE, value |-> 0]
PageInt(n) == [raised |-> "none", parameter |-> "", none |-> FALSE, value |-> n]
PageBadRequest(parameter) ==
    [raised |-> "BadRequest", parameter |-> parameter, none |-> TRUE,
     value |-> 0]

\* Request.japi_page_number
japi_page_number(qs) ==
    LET tmp == get_query_argument(qs, "page[number]")
    IN  IF tmp = <<>> THEN PageNone
        ELSE IF isdigit(tmp[1]) THEN PageInt(int(tmp[1]))
        ELSE PageBadRequest("page[number]")

\* Request.japi_page_size
japi_page_size(qs) ==
    LET tmp == get_query_argument(qs, "page[size]")
    IN  IF tmp = <<>> THEN PageNone
        ELSE IF isdigit(tmp[1]) /\ int(tmp[1]) > 0 THEN PageInt(int(tmp[1]))
        ELSE PageBadRequest("page[size]")

\* Request.japi_paginate (value 1 for True, 0 for False)
japi_paginate(qs) ==
    LET size == japi_page_size(qs)
        number == japi_page_number(qs)
    IN  IF size.raised # "none" THEN size
        ELSE IF number.raised # "none" THEN number
        ELSE IF size.none /\ number.none THEN PageInt(0)
        ELSE IF ~size.none /\ ~number.none THEN PageInt(1)
        ELSE PageBadRequest("page[]")

\* DEFAULT_LIMIT of jsonapi.pagination
DEFAULT_LIMIT == 25

\* NumberSize.from_request: the number and the size given to the
\* constructor. jsonapi.pagination does not import BadRequest, so that the
\* raise statements for an invalid value end in a NameError.
NumberSize_from_request(qs) ==
    LET number == get_query_argument(qs, "page[number]")
        size == get_query_argument(qs, "page[size]")
    IN  IF number # <<>> /\ (~isdigit(number[1]) \/ int(number[1]) < 0)
        THEN [raised |-> "NameError", number |-> 0, size |-> 0]
        ELSE IF size # <<>> /\ (~isdigit(size[1]) \/ int(size[1]) <= 0)
        THEN [raised |-> "NameError", number |-> 0, size |-> 0]
        ELSE [raised |-> "none",
              number |-> IF number # <<>> THEN int(number[1]) ELSE 0,
              size |-> IF size # <<>> THEN int(size[1]) ELSE DEFAULT_LIMIT]

\* the names of the dictionary parse_qs returns, in the order in which the
\* dictionary holds them: the order of their first non-blank value
RECURSIVE QueryNames(_)
QueryNames(qs) ==
    IF qs = <<>> THEN <<>>
    ELSE LET front == QueryNames(SubSeq(qs, 1, Len(qs) - 1))
             last == qs[Len(qs)]
         IN  IF last[2] = "" \/ \E i \in DOMAIN front : front[i] = last[1]
             THEN front
             ELSE Append(front, last[1])

\* re.fullmatch(KEY_RE, key) with KEY_RE = filter\[(?P<field>[A-z0-9_]+)\]:
\* the field of the key, "" when the key does not match
KEY_RE(key) ==
    CASE key = "filter[name]" -> "name"
      [] key = "filter[in]" -> "in"
      [] OTHER -> ""

\* re.fullmatch(VALUE_RE, value) with
\* VALUE_RE = (?P<filtername>[a-z]+):(?P<rule>.*)
VALUE_RE(value) ==
    CASE value = "startswith:25" ->
            [match |-> TRUE, filtername |-> "startswith", rule |-> "25"]
      [] value = "contains:7" ->
            [match |-> TRUE, filtername |-> "contains", rule |-> "7"]
      [] value = "name:25" ->
            [match |-> TRUE, filtername |-> "name", rule |-> "25"]
      [] value = "in:{" ->
            [match |-> TRUE, filtername |-> "in", rule |-> "{"]
      [] OTHER -> [match |-> FALSE, filtername |-> "", rule |-> ""]

\* a Python value: an int or None
PyInt(n) == [py |-> "int", v |-> n]
PyNothing == [py |-> "None", v |-> 0]

\* API.load_json(rule): json.loads of the text
load_json(text) ==
    CASE text = "25" -> [raised |-> "none", value |-> PyInt(25)]
      [] text = "7" -> [raised |-> "none", value |-> PyInt(7)]
      [] OTHER -> [raised |-> "ValueError", value |-> PyNothing]

\* Request.japi_filters (jsonapi/core/request.py) from the key at position
\* i of the query dictionary on: the list of the (field, filtername, rule)
\* tuples, or the first BadRequest
RECURSIVE japi_filters_from(_, _, _)
japi_filters_from(query, names, i) ==
    IF i > Len(names)
    THEN [raised |-> "none", filters |-> <<>>]
    ELSE LET key == names[i]
             field == KEY_RE(key)
             value_match == VALUE_RE(query[key][1])
             rule == load_json(value_match.rule)
             rest == japi_filters_from(query, names, i + 1)
         IN  IF field # "" /\ ~value_match.match
             THEN [raised |-> "BadRequest", filters |-> <<>>]
             ELSE IF field # "" /\ value_match.match
             THEN IF rule.raised # "none"
                  THEN [raised |-> "BadRequest", filters |-> <<>>]
                  ELSE IF rest.raised # "none"
                  THEN rest
                  ELSE [raised |-> "none",
                        filters |->
                            <<<<field, value_match.filtername,
                                rule.value>>>> \o rest.filters]
             ELSE rest

japi_filters(qs) == japi_filters_from(parse_qs(qs), QueryNames(qs), 1)

\* Request.has_filter for the list of filters
has_filter(filters, field, filtername) ==
    \E i \in DOMAIN filters :
        field = filters[i][1] /\ filtername = filters[i][2]

\* the characters of the names of the fields and of the filters
Chars(name) ==
    CASE name = "name" -> <<"n", "a", "m", "e">>
      [] name = "in" -> <<"i", "n">>
      [] name = "startswith" ->
            <<"s", "t", "a", "r", "t", "s", "w", "i", "t", "h">>
      [] name = "contains" -> <<"c", "o", "n", "t", "a", "i", "n", "s">>

\* a in b for two Python strings: a is a substring of b
str_contains(b, a) ==
    \E k \in 0..(Len(Chars(b)) - Len(Chars(a))) :
        SubSeq(Chars(b), k + 1, k + Len(Chars(a))) = Chars(a)

\* Request.get_filter for the list of filters: the rule of the first item
\* for which  item[0] == field in item[1] == filtername  holds, a chained
\* comparison: item[0] == field and field in item[1] and
\* item[1] == filtername
get_filter(filters, field, filtername, default) ==
    LET Holds(item) == /\ item[1] = field
                       /\ str_contains(item[2], field)
                       /\ item[2] = filtername
        found == {i \in DOMAIN filters : Holds(filters[i])}
    IN  IF found = {} THEN default
        ELSE filters[CHOOSE i \in found : \A j \in found : i <= j][3]

FilterKeys == {"filter[name]", "filter[in]", "sort"}
FilterValues ==
    {"", "startswith:25", "contains:7", "name:25", "in:{", "Homer"}
FilterQueries == SeqsUpTo(FilterKeys \X FilterValues, MaxParams)
FilterFields == {"name", "in"}
FilterNames == {"startswith", "contains", "name", "in"}
FilterDefaults == {PyNothing, PyInt(0)}

InitRequest == FixedGraph /\ InitRest /\ debug = TRUE

\* request.japi_fields of a new request
JapiFields ==
    /\ req = NoCall
    /\ \E qs \in FieldsQueries :
         req' = [op |-> "japi_fields", query |-> qs,
                 result |-> japi_fields(qs)]
    /\ UNCHANGED <<graphVars, inc, apiVars, hcall, enc, pager, val, upd, rb,
                   walk, registry>>

\* request.japi_paginate of a new request
JapiPaginate ==
    /\ req = NoCall
    /\ \E qs \in PageQueries :
         req' = [op |-> "japi_paginate", query |-> qs,
                 result |-> japi_paginate(qs)]
    /\ UNCHANGED <<graphVars, inc, apiVars, hcall, enc, pager, val, upd, rb,
                   walk, registry>>

\* NumberSize.from_request(request, total_resources) for a new request
NumberSizeFromRequest ==
    /\ req = NoCall
    /\ \E qs \in PageQueries :
         req' = [op |-> "NumberSize.from_request", query |-> qs,
                 result |-> NumberSize_from_request(qs)]
    /\ UNCHANGED <<graphVars, inc, apiVars, hcall, enc, pager, val, upd, rb,
                   walk, registry>>

\* request.has_filter and request.get_filter of a new request
GetFilter ==
    /\ req = NoCall
    /\ \E qs \in FilterQueries, field \in FilterFields,
          filtername \in FilterNames, default \in FilterDefaults :
         LET filters == japi_filters(qs)
         IN  req' = [op |-> "get_filter", query |-> qs, field |-> field,
                     filtername |-> filtername, default |-> default,
                     result |->
                        IF filters.raised # "none"
                        THEN [raised |-> filters.raised, has |-> FALSE,
                              value |-> PyNothing]
                        ELSE [raised |-> "none",
                              has |-> has_filter(filters.filters, field,
                                                 filtername),
                              value |-> get_filter(filters.filters, field,
                                                   filtername, default)]]
    /\ UNCHANGED <<graphVars, inc, apiVars, hcall, enc, pager, val, upd, rb,
                   walk, registry>>

RequestDiscard ==
    /\ req # NoCall
    /\ req' = NoCall
    /\ UNCHANGED <<graphVars, inc, apiVars, hcall, enc, pager, val, upd, rb,
                   walk, registry>>

NextRequest ==
    \/ JapiFields
    \/ JapiPaginate
    \/ NumberSizeFromRequest
    \/ GetFilter
    \/ RequestDiscard

SpecRequest == InitRequest /\ [][NextRequest]_vars

-----------------------------------------------------------------------------
(* The Validator of jsonapi.core.validator *)

\* a JSON string
JString == [json |-> "string", members |-> <<>>, items |-> <<>>]

\* the outcome of a validation: nothing, or an InvalidDocument with its
\* detail
Valid == [raised |-> "none", detail |-> ""]
InvalidDocument(detail) == [raised |-> "InvalidDocument", detail |-> detail]

\* validation.assert_resource_identifier_object: an object with the members
\* type and id and at most the member meta besides
validation_assert_resource_identifier_object(d) ==
    IF /\ d.json = "object"
       /\ {"type", "id"} \subseteq DOMAIN d.members
       /\ DOMAIN d.members \subseteq {"type", "id", "meta"}
    THEN Valid
    ELSE InvalidDocument("A resource identifier object is required.")

\* validation.assert_links_object
validation_assert_links_object(d) ==
    IF d.json = "object" THEN Valid
    ELSE InvalidDocument("A links object must be an object.")

\* validation.assert_meta_object
validation_assert_meta_object(d) ==
    IF d.json = "object" THEN Valid
    ELSE InvalidDocument("A meta object must be an object.")

\* a validator.ToOneRelationship or validator.ToManyRelationship
RelationshipValidator(to_one, types, required, require_data) ==
    [to_one |-> to_one, types |-> types, required |-> required,
     require_data |-> require_data]

\* Relationship.pre_validate_resource_identifier_object
pre_validate_resource_identifier_object(rel, d) ==
    IF validation_assert_resource_identifier_object(d) # Valid
    THEN validation_assert_resource_identifier_object(d)
    ELSE IF rel.types # {} /\ d.members.type \notin rel.types
    THEN InvalidDocument("The 'type' must be one of the types.")
    ELSE Valid

\* Relationship.pre_validate
Relationship_pre_validate(rel, d) ==
    IF d.json # "object"
    THEN InvalidDocument("A relationship object must be an 'object'.")
    ELSE IF DOMAIN d.members = {}
    THEN InvalidDocument("A relationship object must contain a member.")
    ELSE IF ~(DOMAIN d.members \subseteq {"links", "data", "meta"})
    THEN InvalidDocument("A relationship object may only contain members.")
    ELSE IF rel.require_data /\ "data" \notin DOMAIN d.members
    THEN InvalidDocument("The 'data' member is required.")
    ELSE IF "links" \in DOMAIN d.members
            /\ validation_assert_links_object(d.members.links) # Valid
    THEN validation_assert_links_object(d.members.links)
    ELSE IF "meta" \in DOMAIN d.members
    THEN validation_assert_meta_object(d.members.meta)
    ELSE Valid

\* ToOneRelationship.pre_validate
ToOneRelationship_pre_validate(rel, d) ==
    IF Relationship_pre_validate(rel, d) # Valid
    THEN Relationship_pre_validate(rel, d)
    ELSE IF "data" \notin DOMAIN d.members \/ d.members.data.json = "null"
    THEN Valid
    ELSE IF d.members.data.json = "object"
    THEN pre_validate_resource_identifier_object(rel, d.members.data)
    ELSE InvalidDocument("The 'data' member must be 'null' or an identifier.")

\* the items of a to-many data list are validated in order
RECURSIVE pre_validate_items(_, _)
pre_validate_items(rel, items) ==
    IF items = <<>> THEN Valid
    ELSE IF pre_validate_resource_identifier_object(rel, Head(items)) # Valid
    THEN pre_validate_resource_identifier_object(rel, Head(items))
    ELSE pre_validate_items(rel, Tail(items))

\* ToManyRelationship.pre_validate with every list taken for valid
ToManyRelationship_pre_validate_any_list(rel, d) ==
    IF Relationship_pre_validate(rel, d) # Valid
    THEN Relationship_pre_validate(rel, d)
    ELSE IF "data" \notin DOMAIN d.members \/ d.members.data.json = "array"
    THEN Valid
    ELSE InvalidDocument("The 'data' member must be a list.")

\* ToManyRelationship.pre_validate
ToManyRelationship_pre_validate(rel, d) ==
    IF Relationship_pre_validate(rel, d) # Valid
    THEN Relationship_pre_validate(rel, d)
    ELSE IF "data" \notin DOMAIN d.members
    THEN Valid
    ELSE IF d.members.data.json = "array"
    THEN pre_validate_items(rel, d.members.data.items)
    ELSE InvalidDocument("The 'data' member must be a list.")

\* ValidatorMethod.validate of a relationship validator without fvalidate
Relationship_validate(rel, d) ==
    IF rel.to_one THEN ToOneRelationship_pre_validate(rel, d)
    ELSE ToManyRelationship_pre_validate(rel, d)

\* a resource identifier object
IdentifierObject(type, id) == JObject([type |-> type, id |-> id])

\* the values of the data member of the relationship objects validated
DataMembers ==
    {JNull, JString, JObject([typename |-> "User", id |-> 1]),
     JArray(<<JString>>)}
    \cup {IdentifierObject(t, 1) : t \in RemoteTypes}
    \cup {JArray([i \in DOMAIN ts |-> IdentifierObject(ts[i], i)]) :
            ts \in UNION {[1..n -> RemoteTypes] : n \in 0..MaxItems}}

\* all objects over the given names with the given values of every name
ObjectsOver(names, values) ==
    UNION {{JObject(m) :
               m \in {f \in [K -> UNION {values[k] : k \in K}] :
                         \A k \in K : f[k] \in values[k]}} :
           K \in SUBSET names}

\* the documents given to a relationship validator
RelationshipObjects ==
    {JString, JArray(<<>>)} \cup
    ObjectsOver({"data", "links", "meta", "id"},
                [data |-> DataMembers, links |-> {RelationshipLinks, JString},
                 meta |-> {JObject(<<>>), JString}, id |-> {JString}])

\* A Validator: its validator methods by kind and name. An attribute, link
\* or meta validator is given by its required flag.
Validator(attributes, relationships, links, meta) ==
    [attributes |-> attributes, relationships |-> relationships,
     links |-> links, meta |-> meta]

\* the first InvalidDocument of a sequence of checks
FirstInvalid(checks) ==
    IF \A i \in DOMAIN checks : checks[i] = Valid THEN Valid
    ELSE checks[CHOOSE i \in DOMAIN checks :
                   /\ checks[i] # Valid
                   /\ \A j \in 1..(i - 1) : checks[j] = Valid]

\* the loop "for name, validator in methods.items()" of
\* assert_attributes_object, assert_links_object and assert_meta_object,
\* whose validators accept every value of the documents modelled
required_members(methods, d, kind) ==
    IF \E name \in DOMAIN methods :
          methods[name] /\ name \notin DOMAIN d.members
    THEN InvalidDocument(
            "The '" \o (CHOOSE name \in DOMAIN methods :
                           methods[name] /\ name \notin DOMAIN d.members)
            \o "' " \o kind \o " is missing.")
    ELSE Valid

\* Validator.assert_attributes_object
assert_attributes_object(v, d) ==
    IF d.json # "object"
    THEN InvalidDocument("An attributes object must be an object.")
    ELSE required_members(v.attributes, d, "attribute")

\* Validator.assert_relationship_object of a strict validator
assert_relationship_object(v, relname, d) ==
    IF relname \notin DOMAIN v.relationships
    THEN InvalidDocument("The relationship '" \o relname
                         \o "' does not exist.")
    ELSE Relationship_validate(v.relationships[relname], d)

\* Validator.assert_relationships_object; of several invalid relationship
\* objects the order of the dictionary decides which one is reported
assert_relationships_object(v, d) ==
    LET rels == v.relationships
        required == [name \in DOMAIN rels |-> rels[name].required]
        invalid == {key \in DOMAIN d.members :
                       assert_relationship_object(v, key, d.members[key])
                          # Valid}
    IN  IF d.json # "object"
        THEN InvalidDocument("A relationships object must be an object.")
        ELSE IF required_members(required, d, "relationship") # Valid
        THEN required_members(required, d, "relationship")
        ELSE IF invalid # {}
        THEN LET key == CHOOSE key \in invalid : TRUE
             IN  assert_relationship_object(v, key, d.members[key])
        ELSE Valid

\* Validator.assert_links_object
assert_links_object(v, d) ==
    IF d.json # "object"
    THEN InvalidDocument("A links object must be an object.")
    ELSE required_members(v.links, d, "link")

\* Validator.assert_meta_object
assert_meta_object(v, d) ==
    IF d.json # "object"
    THEN InvalidDocument("A meta object must be an object.")
    ELSE required_members(v.meta, d, "meta")

\* the validation of a member of a resource object that is there, alone
members_only(d, member, required, inner) ==
    <<IF member \in DOMAIN d.members THEN inner ELSE Valid>>

\* the checks of assert_resource_object on one of the members attributes,
\* relationships, links and meta: that it is there if a validator method
\* of its kind is required, and the validation of the member if it is
\* there
member_checks(d, member, required, inner) ==
    <<IF (\E name \in DOMAIN required : required[name])
         /\ member \notin DOMAIN d.members
      THEN InvalidDocument("The '" \o member \o "' object is required.")
      ELSE Valid,
      IF member \in DOMAIN d.members THEN inner ELSE Valid>>

\* Validator.assert_resource_object. The type and the id of the documents
\* modelled are strings, which the generic ID and Type validators accept,
\* and the generic ID is not required.
assert_resource_object(v, d) ==
    LET m == d.members
        Member(name) == IF name \in DOMAIN m THEN m[name] ELSE JNull
        rels == v.relationships
    IN  IF d.json # "object"
        THEN InvalidDocument("A resource object must be an object.")
        ELSE IF ~(DOMAIN m \subseteq {"id", "type", "attributes",
                                      "relationships", "links", "meta"})
        THEN InvalidDocument("A resource object may only contain members.")
        ELSE IF "type" \notin DOMAIN m
        THEN InvalidDocument("The 'type' member is required.")
        ELSE FirstInvalid(
            member_checks(d, "attributes", v.attributes,
                assert_attributes_object(v, Member("attributes")))
            \o member_checks(d, "relationships",
                [name \in DOMAIN rels |-> rels[name].required],
                assert_relationships_object(v, Member("relationships")))
            \o member_checks(d, "links", v.links,
                assert_links_object(v, Member("links")))
            \o member_checks(d, "meta", v.meta,
                assert_meta_object(v, Member("meta"))))

\* no member
Absent == [json |-> "absent", members |-> <<>>, items |-> <<>>]

\* the validator methods of one kind: none, or one of the given name that
\* is required or not
Methods1(name) == {<<>>} \cup {name :> required : required \in BOOLEAN}

\* the validators: at most one attribute, relationship, link and meta
Validators ==
    {Validator(attributes,
               [name \in DOMAIN relationships |->
                   RelationshipValidator(TRUE, {"User"}, relationships[name],
                                         FALSE)],
               links, meta) :
        attributes \in Methods1("title"),
        relationships \in Methods1("author"),
        links \in Methods1("self"), meta \in Methods1("rev")}

\* the resource object with the given members, where they are not Absent
ResourceObject(has_type, other, attributes, relationships, links, meta) ==
    LET Member(name, value) ==
            IF value = Absent THEN <<>> ELSE name :> value
    IN  JObject((IF has_type THEN "type" :> "Post" ELSE <<>>)
                @@ "id" :> 1
                @@ Member("data", other)
                @@ Member("attributes", attributes)
                @@ Member("relationships", relationships)
                @@ Member("links", links)
                @@ Member("meta", meta))

\* the documents given to assert_resource_object
ResourceObjects ==
    {JString} \cup
    {ResourceObject(has_type, other, attributes, relationships, links, meta) :
        has_type \in BOOLEAN, other \in {Absent, JNull},
        attributes \in {Absent, JString, JObject(<<>>),
                        JObject([title |-> JString])},
        relationships \in
            {Absent, JObject(<<>>), JObject([author |-> JString]),
             JObject([author |-> JObject([data |-> JNull])]),
             JObject([bogus |-> JObject([data |-> JNull])])},
        links \in {Absent, JObject(<<>>), JObject([self |-> JString])},
        meta \in {Absent, JObject(<<>>), JObject([rev |-> JString])}}

\* Encoder.serialize_relationships for a request without a fieldset: the
\* to-one relationship author and the to-many relationship comments, as
\* far as the encoder has them, encoded from what their methods returned
serialize_relationships(relationships, returned) ==
    [name \in relationships |->
        IF name = "author" THEN ToOneRelationship_encode(returned.author)
        ELSE ToManyRelationship_encode(returned.comments)]

\* Encoder.serialize_resource of the Post 1 for a request without a fieldset,
\* by an encoder with the given attributes and relationships and with no
\* meta and no links of its own
serialize_resource(attributes, relationships, returned) ==
    LET rels == serialize_relationships(relationships, returned)
        failed == {name \in relationships : rels[name].raised # "none"}
    IN  IF failed # {}
        THEN [raised |-> rels[CHOOSE name \in failed : TRUE].raised,
              value |-> JNull]
        ELSE [raised |-> "none",
              value |->
                JObject(
                    ("type" :> "Post" @@ "id" :> 1)
                    @@ (IF attributes # {}
                        THEN "attributes" :>
                                JObject(serialize_attributes(attributes,
                                                             NoFields))
                        ELSE <<>>)
                    @@ (IF relationships # {}
                        THEN "relationships" :>
                                JObject([name \in relationships |->
                                            JObject(rels[name].value)])
                        ELSE <<>>)
                    @@ "links" :> JObject([self |-> "self"]))]

\* the Validator that declares the attributes and the relationships of such
\* an encoder, with the types of the related resources
ValidatorFor(attributes, relationships) ==
    Validator([name \in attributes |-> FALSE],
              [name \in relationships |->
                  IF name = "author"
                  THEN RelationshipValidator(TRUE, {"User"}, FALSE, FALSE)
                  ELSE RelationshipValidator(FALSE, {"Comment"}, FALSE,
                                             FALSE)],
              <<>>, <<>>)

InitValidator == FixedGraph /\ InitRest /\ debug = TRUE

\* a relationship validator validates a document
ValidateRelationship ==
    /\ val = NoCall
    /\ \E to_one \in BOOLEAN, require_data \in BOOLEAN,
          types \in {{}, {"User"}}, d \in RelationshipObjects :
         LET rel == RelationshipValidator(to_one, types, FALSE, require_data)
         IN  val' = [op |-> "validate", validator |-> rel, d |-> d,
                     result |-> Relationship_validate(rel, d)]
    /\ UNCHANGED <<graphVars, inc, apiVars, hcall, enc, pager, req, upd, rb,
                   walk, registry>>

\* a Validator validates a resource object
AssertResourceObject ==
    /\ val = NoCall
    /\ \E v \in Validators, d \in ResourceObjects :
         val' = [op |-> "assert_resource_object", validator |-> v, d |-> d,
                 result |-> assert_resource_object(v, d)]
    /\ UNCHANGED <<graphVars, inc, apiVars, hcall, enc, pager, req, upd, rb,
                   walk, registry>>

\* an Encoder serializes a resource and the Validator of its type validates
\* the resource object
RoundTrip ==
    /\ val = NoCall
    /\ \E attributes \in SUBSET AttributeNames,
          relationships \in SUBSET {"author", "comments"},
          author_ \in {v \in ToOneValues : v.type \in {"", "User"}},
          comments_ \in {v \in ToManyValues :
                           \A i \in DOMAIN v.items :
                               v.items[i].type = "Comment"} :
         LET returned == [author |-> author_, comments |-> comments_]
             v == ValidatorFor(attributes, relationships)
             d == serialize_resource(attributes, relationships, returned)
         IN  val' = [op |-> "round_trip", validator |-> v,
                     relationships |-> relationships, returned |-> returned,
                     d |-> d.value,
                     result |-> IF d.raised # "none"
                                THEN [raised |-> d.raised, detail |-> ""]
                                ELSE assert_resource_object(v, d.value)]
    /\ UNCHANGED <<graphVars, inc, apiVars, hcall, enc, pager, req, upd, rb,
                   walk, registry>>

ValidatorReturn ==
    /\ val # NoCall
    /\ val' = NoCall
    /\ UNCHANGED <<graphVars, inc, apiVars, hcall, enc, pager, req, upd, rb,
                   walk, registry>>

NextValidator ==
    \/ ValidateRelationship
    \/ AssertResourceObject
    \/ RoundTrip
    \/ ValidatorReturn

SpecValidator == InitValidator /\ [][NextValidator]_vars

-----------------------------------------------------------------------------
(* Schema.update_resource (jsonapi/schema/schema.py) and the property     *)
(* descriptors' set() (jsonapi/schema/descriptors)                         *)

\* a descriptor of the schema: has it a setter, is it declared writable
Property(fset, writable) == [fset |-> fset, writable |-> writable]

\* the outcome of an update: the exception raised and the resource's fields
Updated(raised, resource) == [raised |-> raised, resource |-> resource]

\* Attribute.default_set and ToOneRelationship.default_set
default_set(prop, resource, key, new_value) ==
    IF ~prop.writable
    THEN Updated("ReadOnlyField", resource)
    ELSE Updated("none", [resource EXCEPT ![key] = new_value])

\* WriteableProperty.set: the setter if one is defined, else default_set;
\* a setter stores the new value
WriteableProperty_set(prop, resource, key, new_value) ==
    IF prop.fset
    THEN Updated("none", [resource EXCEPT ![key] = new_value])
    ELSE default_set(prop, resource, key, new_value)

\* the loop of Schema._update_attributes and Schema._update_relationships
\* from item i of the object *data* on: unknown names are skipped, the first
\* exception ends the loop
RECURSIVE update_items(_, _, _, _)
update_items(props, resource, data, i) ==
    IF i > Len(data)
    THEN Updated("none", resource)
    ELSE LET name == data[i][1]
             value == data[i][2]
         IN  IF name \notin DOMAIN props
             THEN update_items(props, resource, data, i + 1)
             ELSE LET r == WriteableProperty_set(props[name], resource,
                                                 name, value)
                  IN  IF r.raised # "none"
                      THEN r
                      ELSE update_items(props, r.resource, data, i + 1)

Schema_update_attributes(schema, resource, data) ==
    update_items(schema.attributes, resource, data, 1)

Schema_update_relationships(schema, resource, data) ==
    update_items(schema.relationships, resource, data, 1)

\* Schema.update_resource: the attributes object, then the relationships
\* object, of the resource object *data*
update_resource(schema, resource, data) ==
    LET a == IF "attributes" \in DOMAIN data
             THEN Schema_update_attributes(schema, resource, data.attributes)
             ELSE Updated("none", resource)
    IN  IF a.raised # "none"
        THEN a
        ELSE IF "relationships" \in DOMAIN data
             THEN Schema_update_relationships(schema, a.resource,
                                              data.relationships)
             ELSE a

SchemaAttributes == {"title", "votes"}
SchemaRelationships == {"author"}
FieldValues == {"a", "b"}
Properties == {Property(s, w) : s \in BOOLEAN, w \in BOOLEAN}

\* the dictionaries name -> descriptor over some of the names
Declarations(names) ==
    UNION {[ns -> Properties] : ns \in SUBSET names}

Schemas ==
    {[attributes |-> a, relationships |-> r] :
        a \in Declarations(SchemaAttributes),
        r \in Declarations(SchemaRelationships)}

\* the JSON objects over the names, as the sequence of their items
ItemsOver(names) ==
    {s \in SeqsUpTo(names \X FieldValues, MaxFields) :
        \A i, j \in DOMAIN s : s[i][1] = s[j][1] => i = j}

UpdateDocuments ==
    {[attributes |-> a] : a \in ItemsOver(SchemaAttributes \cup {"text"})}
    \cup {[relationships |-> r] : r \in ItemsOver(SchemaRelationships)}
    \cup {[attributes |-> a, relationships |-> r] :
             a \in ItemsOver(SchemaAttributes \cup {"text"}),
             r \in ItemsOver(SchemaRelationships)}
    \cup {<<>>}

StoredFields == [f \in SchemaAttributes \cup SchemaRelationships |-> "a"]

InitSchema == FixedGraph /\ InitRest /\ debug = TRUE

\* a handler updates a resource from the resource object of the request
UpdateResource ==
    /\ upd = NoCall
    /\ \E schema \in Schemas, data \in UpdateDocuments :
         upd' = [op |-> "update_resource", schema |-> schema,
                 resource |-> StoredFields, data |-> data,
                 result |-> update_resource(schema, StoredFields, data)]
    /\ UNCHANGED <<graphVars, inc, apiVars, hcall, enc, pager, req, val, rb,
                   walk, registry>>

SchemaReturn ==
    /\ upd # NoCall
    /\ upd' = NoCall
    /\ UNCHANGED <<graphVars, inc, apiVars, hcall, enc, pager, req, val, rb,
                   walk, registry>>

NextSchema == UpdateResource \/ SchemaReturn

SpecSchema == InitSchema /\ [][NextSchema]_vars

-----------------------------------------------------------------------------
(* The response builders Collection and Resource with their IncludeMixin  *)
(* (jsonapi/core/response_builder.py)                                      *)

\* the fetch_include calls made on one builder
MaxFetches == 2

\* Collection.__init__ and Resource.__init__: the primary data and the list
\* *included* the builder is constructed with (included or list()); the data
\* of a Resource builder is the list of its resource, empty for None
Builder(cls, typename, data, included, include) ==
    [op |-> "builder", cls |-> cls, typename |-> typename, data |-> data,
     included |-> included, include |-> include, fetches |-> 0,
     raised |-> "none", document |-> <<>>]

\* IncludeMixin.fetch_include: nothing without an includer of the type,
\* else self.included.extend(includer.fetch_paths(data, japi_include))
fetch_include(b) ==
    LET fetched == fetch_paths(b.typename, b.data, b.include)
    IN  IF b.typename \notin IncluderTypes
        THEN b
        ELSE IF fetched.raised # "none"
        THEN [b EXCEPT !.raised = fetched.raised]
        ELSE [b EXCEPT !.included = @ \o SetToSeq(fetched.value)]

\* Collection.render and Resource.render, reduced to the members jsonapi,
\* data and included, the resources reduced to their type and id
Builder_render(b) ==
    IF b.included # <<>>
    THEN [jsonapi |-> JsonApiObject, data |-> SerializeMany(b.data),
          included |-> SerializeMany(b.included)]
    ELSE [jsonapi |-> JsonApiObject, data |-> SerializeMany(b.data)]

BuilderTypes == PrimaryTypes \cup {"Image"}
BuilderData(cls, typename) ==
    {d \in PrimaryLists(typename) : cls = "Resource" => Len(d) <= 1}
BuilderIncluded == {<<>>, <<Res("User", 1, 1)>>}

InitBuilder == FixedGraph /\ InitRest /\ debug = TRUE

\* a handler constructs a response builder
NewBuilder ==
    /\ rb = NoCall
    /\ \E cls \in {"Collection", "Resource"}, typename \in BuilderTypes,
          included \in BuilderIncluded, include \in RequestIncludes :
         \E data \in BuilderData(cls, typename) :
            rb' = Builder(cls, typename, data, included, include)
    /\ UNCHANGED <<graphVars, inc, apiVars, hcall, enc, pager, req, val, upd,
                   walk, registry>>

\* the handler calls fetch_include on the builder
FetchInclude ==
    /\ rb # NoCall
    /\ rb.raised = "none"
    /\ rb.document = <<>>
    /\ rb.fetches < MaxFetches
    /\ rb' = [fetch_include(rb) EXCEPT !.fetches = @ + 1]
    /\ UNCHANGED <<graphVars, inc, apiVars, hcall, enc, pager, req, val, upd,
                   walk, registry>>

\* the handler renders the document of the builder
BuilderRender ==
    /\ rb # NoCall
    /\ rb.raised = "none"
    /\ rb.document = <<>>
    /\ rb' = [rb EXCEPT !.document = Builder_render(rb)]
    /\ UNCHANGED <<graphVars, inc, apiVars, hcall, enc, pager, req, val, upd,
                   walk, registry>>

BuilderDiscard ==
    /\ rb # NoCall
    /\ rb.raised # "none" \/ rb.document # <<>>
    /\ rb' = NoCall
    /\ UNCHANGED <<graphVars, inc, apiVars, hcall, enc, pager, req, val, upd,
                   walk, registry>>

NextBuilder == NewBuilder \/ FetchInclude \/ BuilderRender \/ BuilderDiscard

SpecBuilder == InitBuilder /\ [][NextBuilder]_vars

-----------------------------------------------------------------------------
(* A client following the links of NumberSize.json_links and              *)
(* LimitOffset.json_links (jsonapi/pagination.py)                          *)

\* int(s) for the value s of a page parameter of a link
LinkInt(s) ==
    CHOOSE n \in (0 - MaxTotal - 1)..(MaxTotal + MaxNumber * MaxSize) :
        ToString(n) = s

\* the links of the page the walk is on: the json_links() of the helper
\* constructed with the position of the page
WalkLinks(w) ==
    IF w.cls = "NumberSize"
    THEN NumberSize_json_links(<<>>, w.page, w.size, w.total_resources)
    ELSE LimitOffset_json_links(<<>>, w.size, w.page, w.total_resources)

\* the position a link addresses: its page[number], respectively
\* page[offset]
LinkPage(w, link) ==
    IF w.cls = "NumberSize"
    THEN LinkInt(link["page[number]"][1])
    ELSE LinkInt(link["page[offset]"][1])

\* the walk is on a page that has no link in the direction of the walk
WalkEnded(w) == w.rel \notin DOMAIN WalkLinks(w)

InitWalk == FixedGraph /\ InitRest /\ debug = TRUE

\* a client requests the page of the first link and will follow next
StartAtFirst ==
    /\ walk = NoCall
    /\ \E cls \in {"NumberSize", "LimitOffset"}, size \in 1..MaxSize,
          total_resources \in 0..MaxTotal :
         LET w == [op |-> "walk", cls |-> cls, rel |-> "next",
                   size |-> size, total_resources |-> total_resources,
                   page |-> 0]
         IN  walk' = [w EXCEPT !.page = LinkPage(w, WalkLinks(w).first)]
    /\ UNCHANGED <<graphVars, inc, apiVars, hcall, enc, pager, req, val, upd,
                   rb, registry>>

\* a client requests any page and will follow prev
StartAnywhere ==
    /\ walk = NoCall
    /\ \E cls \in {"NumberSize", "LimitOffset"}, size \in 1..MaxSize,
          total_resources \in 0..MaxTotal, page \in 0..MaxTotal :
         walk' = [op |-> "walk", cls |-> cls, rel |-> "prev",
                  size |-> size, total_resources |-> total_resources,
                  page |-> page]
    /\ UNCHANGED <<graphVars, inc, apiVars, hcall, enc, pager, req, val, upd,
                   rb, registry>>

\* the client requests the page its link next, respectively prev, addresses
FollowLink ==
    /\ walk # NoCall
    /\ ~WalkEnded(walk)
    /\ walk' = [walk EXCEPT
                   !.page = LinkPage(walk, WalkLinks(walk)[walk.rel])]
    /\ UNCHANGED <<graphVars, inc, apiVars, hcall, enc, pager, req, val, upd,
                   rb, registry>>

\* the client leaves the collection on a page without the link
WalkDiscard ==
    /\ walk # NoCall
    /\ WalkEnded(walk)
    /\ walk' = NoCall
    /\ UNCHANGED <<graphVars, inc, apiVars, hcall, enc, pager, req, val, upd,
                   rb, registry>>

NextWalk == StartAtFirst \/ StartAnywhere \/ FollowLink \/ WalkDiscard

\* the client keeps following the link while the page has one
SpecWalk == InitWalk /\ [][NextWalk]_vars /\ WF_vars(FollowLink)

-----------------------------------------------------------------------------
(* API.add_type and API.get_encoder (jsonapi/core/api.py)                  *)

\* the encoder objects of one typename the application creates
MaxEncoders == 2

\* an encoder object: its identity, its typename and its resource_class
\* ("None" when the encoder has none)
Encoder(id, typename, resource_class) ==
    [id |-> id, typename |-> typename, resource_class |-> resource_class]

EncoderTypenames == {"Post", "User"}
ResourceClasses == {"PostClass", "UserClass"}
Encoders ==
    {Encoder(id, t, c) : id \in 1..MaxEncoders, t \in EncoderTypenames,
                         c \in ResourceClasses \cup {"None"}}

\* API.add_type(encoder) on the dictionaries of the API
add_type(api, encoder) ==
    [api EXCEPT
        !.encoder = (encoder.typename :> encoder) @@ @,
        !.resource_class_to_encoder =
            IF encoder.resource_class # "None"
            THEN (encoder.resource_class :> encoder) @@ @
            ELSE @]

\* what get_encoder is asked for: a typename, a resource class or a
\* resource object (an instance of the class)
Lookup(kind, name) == [kind |-> kind, name |-> name]
Lookups ==
    {Lookup("typename", t) : t \in EncoderTypenames}
    \cup {Lookup(k, c) : k \in {"class", "object"}, c \in ResourceClasses}

\* API.get_encoder(o) without a default: the encoder of the typename o, of
\* the resource class o or of the class type(o), else KeyError
get_encoder(api, o) ==
    IF o.kind = "typename" /\ o.name \in DOMAIN api.encoder
    THEN [raised |-> "none", encoder |-> api.encoder[o.name]]
    ELSE IF o.kind \in {"class", "object"}
            /\ o.name \in DOMAIN api.resource_class_to_encoder
    THEN [raised |-> "none",
          encoder |-> api.resource_class_to_encoder[o.name]]
    ELSE [raised |-> "KeyError", encoder |-> Encoder(0, "", "None")]

InitTypes == FixedGraph /\ InitRest /\ debug = TRUE

\* the application registers an encoder
AddType ==
    /\ \E encoder \in Encoders :
         registry' = [add_type(registry, encoder) EXCEPT !.got = NoCall]
    /\ UNCHANGED <<graphVars, inc, apiVars, hcall, enc, pager, req, val,
                   upd, rb, walk>>

\* the application asks for the encoder of a typename, class or resource
GetEncoder ==
    /\ \E o \in Lookups :
         registry' = [registry EXCEPT
                      !.got = [op |-> "get_encoder", o |-> o,
                               result |-> get_encoder(registry, o)]]
    /\ UNCHANGED <<graphVars, inc, apiVars, hcall, enc, pager, req, val,
                   upd, rb, walk>>

NextTypes == AddType \/ GetEncoder

SpecTypes == InitTypes /\ [][NextTypes]_vars

-----------------------------------------------------------------------------
(* Claims about the Includer *)

\* C1: the collection returned by Includer.fetch_paths never contains two
\* resources with equal (typename, id).
C1_NoTwoEqualIdentifiers ==
    (inc.op = "fetch_paths" /\ inc.result.raised = "none") =>
        \A a, b \in inc.result.value :
            ensure_identifier(a) = ensure_identifier(b) => a = b

\* C2: for a path [r1, r2] of declared relationships, the result of
\* Includer.fetch_path contains every resource related through r2 to a
\* resource that is related through r1 to one of the given resources.
C2_FetchPathAppliesEverySegment ==
    (/\ inc.op = "fetch_path"
     /\ Len(inc.paths[1]) >= 2
     /\ inc.result.raised = "none") =>
        \A r \in Range(inc.resources) :
            \A m \in RelatedThrough(r, inc.paths[1][1]) :
                RelatedThrough(m, inc.paths[1][2]) \subseteq inc.result.value

\* C4: Includer.path_exists returns a boolean for every non-empty path, and
\* True for a single-segment path that names a declared relationship with
\* known remote types.
C4_PathExistsReturnsBoolean ==
    inc.op = "path_exists" =>
        LET rels == IncluderRelationships[inc.type]
            name == inc.paths[1][1]
        IN /\ inc.result \in {"True", "False"}
           /\ (/\ Len(inc.paths[1]) = 1
               /\ name \in DOMAIN rels
               /\ rels[name].remote_types # Unknown
               /\ Range(rels[name].remote_types) \subseteq IncluderTypes)
              => inc.result = "True"

-----------------------------------------------------------------------------
(* Claims about API.handle_request *)

\* C3: when the include parameter of a request names a relationship the
\* primary type does not declare, and the request reaches a handler method
\* that builds a compound document, the handling fails with
\* UnresolvableIncludePath (status 400, source.parameter "include"), and no
\* relationship getter is called for any include path of the request.
C3_UnknownIncludePathRejected ==
    (/\ resp.op = "handle_request"
     /\ resp.fault = NoFault
     /\ resp.result.handler.cls \in {"schema.Collection", "schema.Resource"}
     /\ resp.result.invoked \in {"post", "patch"}
     /\ resp.request.path \in {<<"Post">>, <<"Post", "1">>}
     /\ \E i \in DOMAIN resp.request.include :
           Head(resp.request.include[i])
               \notin DOMAIN IncluderRelationships[resp.result.args.type]) =>
        LET out == resp.result.out
            calls == resp.result.calls
        IN /\ \/ out.raised = "UnresolvableIncludePath"
              \/ /\ out.raised = "none"
                 /\ out.status = 400
                 /\ "errors" \in DOMAIN out.body
                 /\ "source" \in DOMAIN out.body.errors[1]
                 /\ out.body.errors[1].source.parameter = "include"
           /\ \A i \in DOMAIN calls : calls[i].op # "getter"

\* C7: a request whose path has one of the four endpoint shapes is routed to
\* the handler registered for (Type, collection), (Type, resource),
\* (Type, relationship, rel) respectively (Type, related, rel), and the
\* captured type, id and relationship name are the japi_uri_arguments.
C7_RoutesFourEndpointShapes ==
    (resp.op = "handle_request" /\ resp.fault.at # "prepare") =>
        LET path == resp.request.path
            res == resp.result
            Plain(seg) == ~HasLt(seg) /\ seg # "relationships"
            Routed(key, args) ==
                key \in DOMAIN handlers =>
                    (res.handler = handlers[key] /\ res.args = args)
        IN /\ (Len(path) = 1 /\ Plain(path[1])) =>
                  Routed(<<path[1], "collection">>, [type |-> path[1]])
           /\ (Len(path) = 2 /\ Plain(path[2])) =>
                  Routed(<<path[1], "resource">>,
                         [type |-> path[1], id |-> path[2]])
           /\ (Len(path) = 4 /\ path[3] = "relationships" /\ Plain(path[4])) =>
                  Routed(<<path[1], "relationship", path[4]>>,
                         [type |-> path[1], id |-> path[2],
                          relname |-> path[4]])
           /\ (Len(path) = 3 /\ Plain(path[3])) =>
                  Routed(<<path[1], "related", path[3]>>,
                         [type |-> path[1], id |-> path[2],
                          relname |-> path[3]])

\* C8: when prepare_request, the route resolution or the handler raises a
\* declared Error, handle_request returns, if the API is not in debug mode,
\* a response whose status is the http_status of the error and whose body
\* has an errors array describing it; in debug mode the exception leaves
\* handle_request and there is no response.
C8_DeclaredErrorBecomesResponse ==
    resp.op = "handle_request" =>
        LET res == resp.result
            out == res.out
            RaisedInTry(exc) ==
                \/ resp.fault.at = "prepare" /\ exc = resp.fault.exc
                \/ /\ resp.fault.at # "prepare"
                   /\ res.handler = NoHandler
                   /\ exc = "NotFound"
                \/ /\ resp.fault.at # "prepare"
                   /\ res.handler # NoHandler
                   /\ resp.request.method \notin HandlerVerbs
                   /\ exc = "MethodNotAllowed"
                \/ /\ resp.fault.at = "storage"
                   /\ res.calls # <<>>
                   /\ exc = resp.fault.exc
        IN \A exc \in DOMAIN ErrorHttpStatus :
              RaisedInTry(exc) =>
                 IF debug
                 THEN out.raised = exc /\ out.status = 0 /\ out.body = <<>>
                 ELSE /\ out.raised = "none"
                      /\ out.status = ErrorHttpStatus[exc]
                      /\ DOMAIN out.body = {"errors"}
                      /\ Len(out.body.errors) = 1
                      /\ out.body.errors[1].status = ErrorHttpStatus[exc]
                      /\ out.body.errors[1].title = exc

\* C8 witness: not in debug mode, the storage method of a handler raised
\* NotFound and handle_request returned the 404 error document.
C8_Witness ==
    /\ resp.op = "handle_request"
    /\ ~debug
    /\ resp.fault = Fault("storage", "NotFound")
    /\ resp.result.calls # <<>>
    /\ resp.result.out.raised = "none"
    /\ resp.result.out.status = 404
    /\ "errors" \in DOMAIN resp.result.out.body

\* C9: not in debug mode, an exception that is not a declared Error (a
\* KeyError, an ErrorList) raised by prepare_request or by the storage method
\* of the handler is mapped by handle_request to a response with status 500.
C9_OtherExceptionBecomes500 ==
    (/\ resp.op = "handle_request"
     /\ ~debug
     /\ resp.fault.exc \in {"KeyError", "ErrorList"}
     /\ \/ resp.fault.at = "prepare"
        \/ resp.fault.at = "storage" /\ resp.result.calls # <<>>) =>
        /\ resp.result.out.raised = "none"
        /\ resp.result.out.status = 500

-----------------------------------------------------------------------------
(* Claims about Handler.handle *)

\* C10: Handler.handle invokes exactly the method named by the verb of the
\* request; a call that fails with MethodNotAllowed (405) has called no
\* storage operation; a to-one relationship handler accepts GET and PATCH
\* only (every other verb fails with MethodNotAllowed) and a to-many
\* relationship handler accepts GET, PATCH, POST and DELETE only.
C10_HandleDispatchesOnVerb ==
    hcall.op = "handle" =>
        LET res == hcall.result
            method == hcall.request.method
            cls == hcall.handler.cls
            NotAllowed == res.out.raised = "MethodNotAllowed"
        IN /\ ErrorHttpStatus["MethodNotAllowed"] = 405
           /\ method \in {"get", "post", "patch", "delete", "head", "options"}
                 => res.invoked = method
           /\ method \notin {"get", "post", "patch", "delete", "head", "options"}
                 => (res.invoked = "none" /\ NotAllowed)
           /\ NotAllowed => res.calls = <<>>
           /\ cls \in {"ToOneRelationshipHandler", "schema.ToOneRelationship"}
                 => (NotAllowed <=> method \notin {"get", "patch"})
           /\ cls \in {"ToManyRelationshipHandler",
                       "schema.ToManyRelationship"}
                 => (NotAllowed <=>
                        method \notin {"get", "patch", "post", "delete"})

\* C10 witness: a to-one relationship handler was given a POST, the post
\* method of Handler was invoked and raised MethodNotAllowed, and no storage
\* operation was called.
C10_Witness ==
    /\ hcall.op = "handle"
    /\ hcall.handler.cls = "ToOneRelationshipHandler"
    /\ hcall.request.method = "post"
    /\ hcall.result.invoked = "post"
    /\ hcall.result.out.raised = "MethodNotAllowed"
    /\ hcall.result.calls = <<>>

-----------------------------------------------------------------------------
(* Claims about the relationship objects *)

\* C5: a relationship getter that returns resource objects, (typename, id)
\* tuples or identifier documents, paginated or not, is serialized; and in
\* every serialized relationship object with a data member, data is null or
\* an object with exactly the members type and id for a to-one relationship,
\* and an array of objects with exactly the members type and id for a
\* to-many relationship.
C5_LinkageShape ==
    enc.op \in {"encode", "serialize_relationship"} =>
        LET IsIdentifier(v) ==
                v.json = "object" /\ DOMAIN v.members = {"type", "id"}
            value == enc.result.value
        IN /\ enc.returned.kind \in IdentifierKinds \cup {"list", "paginated"}
                 => enc.result.raised = "none"
           /\ (enc.result.raised = "none" /\ "data" \in DOMAIN value) =>
                 IF enc.to_one
                 THEN value.data = JNull \/ IsIdentifier(value.data)
                 ELSE /\ value.data.json = "array"
                      /\ \A i \in DOMAIN value.data.items :
                            IsIdentifier(value.data.items[i])

-----------------------------------------------------------------------------
(* Claims about the pagination helpers *)

\* C6: json_links() of every NumberSize(number, size, total_resources) and
\* every LimitOffset(limit, offset, total_resources) that was constructed
\* has the keys self, first and last; it has prev iff number > 0,
\* respectively offset > 0, and next iff number < floor((total - 1)/size),
\* respectively offset + limit < total_resources.
C6_PaginationLinks ==
    (pager.op \in {"NumberSize", "LimitOffset"}
     /\ pager.result.raised = "none") =>
        LET keys == DOMAIN pager.result.links
        IN /\ {"self", "first", "last"} \subseteq keys
           /\ keys \subseteq {"self", "first", "last", "prev", "next"}
           /\ pager.op = "NumberSize" =>
                 /\ "prev" \in keys <=> pager.number > 0
                 /\ "next" \in keys <=>
                       pager.number <
                           (pager.total_resources - 1) \div pager.size
           /\ pager.op = "LimitOffset" =>
                 /\ "prev" \in keys <=> pager.offset > 0
                 /\ "next" \in keys <=>
                       pager.offset + pager.limit < pager.total_resources

\* C6 witness: a NumberSize on the last page of several, with a prev link
\* and without a next link.
C6_Witness ==
    /\ pager.op = "NumberSize"
    /\ pager.result.raised = "none"
    /\ pager.number > 0
    /\ pager.number = (pager.total_resources - 1) \div pager.size
    /\ "prev" \in DOMAIN pager.result.links
    /\ "next" \notin DOMAIN pager.result.links
    /\ pager.result.links["last"]["page[number]"]
          = <<ToString(pager.number)>>

\* C11: on every endpoint that accepts a request body (collection POST,
\* resource PATCH, relationship PATCH, to-many relationship POST and DELETE)
\* a request whose content type is not application/vnd.api+json fails with
\* UnsupportedMediaType (415), and a request rejected by the content-type
\* check or by the validation of its document has called no storage
\* operation.
C11_ChecksBeforeMutation ==
    (/\ hcall.op = "handle"
     /\ LET cls == hcall.handler.cls
            method == hcall.request.method
        IN \/ cls \in {"CollectionHandler", "schema.Collection"}
              /\ method = "post"
           \/ cls \in {"ResourceHandler", "schema.Resource"}
              /\ method = "patch"
           \/ cls \in {"ToOneRelationshipHandler", "schema.ToOneRelationship"}
              /\ method = "patch"
           \/ cls \in {"ToManyRelationshipHandler",
                       "schema.ToManyRelationship"}
              /\ method \in {"patch", "post", "delete"}) =>
        LET out == hcall.result.out
        IN /\ ErrorHttpStatus["UnsupportedMediaType"] = 415
           /\ hcall.request.content_type # JsonApiMediaType =>
                 (out.raised = "UnsupportedMediaType"
                  /\ hcall.result.calls = <<>>)
           /\ ~hcall.request.valid =>
                 (out.raised \in {"UnsupportedMediaType", "InvalidDocument"}
                  /\ hcall.result.calls = <<>>)

\* C12: a successful POST to a collection endpoint answers with status 201,
\* a location header and, as primary data, the newly created resource, whose
\* id is set.
C12_PostCreated ==
    (/\ hcall.op = "handle"
     /\ hcall.handler.cls \in {"CollectionHandler", "schema.Collection"}
     /\ hcall.request.method = "post"
     /\ hcall.result.out.raised = "none") =>
        LET out == hcall.result.out
            new == CreatedResource(hcall.handler.typename)
        IN /\ out.status = 201
           /\ "location" \in out.headers
           /\ out.body.data = <<ensure_identifier(new)>>
           /\ new.id > 0

\* C13: every link of json_links() differs from the uri of the request in
\* the pagination parameters only: each other query parameter of the uri
\* is in every link with the values it has in the uri, and a link has no
\* other parameter.
C13_LinksKeepOtherParameters ==
    (pager.op # "none" /\ pager.result.raised = "none") =>
        \A rel \in DOMAIN pager.result.links :
            LET link == pager.result.links[rel]
                names == {pager.query[i][1] : i \in 1..Len(pager.query)}
                            \ PageKeys
            IN  /\ DOMAIN link \ PageKeys = names
                /\ \A name \in names :
                      link[name] = QueryValues(pager.query, name)

\* C14: the keys of the attributes object serialize_attributes returns for
\* a request with a fieldset for the type are the names of the fieldset
\* that are declared attributes, a subset of the keys the call returns
\* without a fieldset, which are all declared attributes.
C14_AttributesRespectFieldset ==
    enc.op = "serialize_attributes" =>
        LET keys == DOMAIN enc.result
            listed == {enc.fields.names[i] : i \in 1..Len(enc.fields.names)}
        IN  /\ enc.fields.given => keys = listed \cap enc.attributes
            /\ ~enc.fields.given => keys = enc.attributes
            /\ keys \subseteq
                  DOMAIN serialize_attributes(enc.attributes, NoFields)

\* C14 witness: a fieldset that names a declared attribute and a name that
\* is not declared, and leaves a declared attribute out.
C14_Witness ==
    /\ enc.op = "serialize_attributes"
    /\ enc.fields.given
    /\ enc.fields.names = <<"title", "author">>
    /\ enc.attributes = {"title", "body"}
    /\ DOMAIN enc.result = {"title"}

\* C15: Request.japi_fields tells a missing fieldset from an empty one: a
\* type whose fields[Type] parameter is given with an empty value is a key
\* of japi_fields with an empty list, and a type without a fields[Type]
\* parameter is no key of japi_fields.
C15_EmptyFieldsetDistinguished ==
    req.op = "japi_fields" =>
        \A t \in FieldsTypes :
            LET given == QueryValues(req.query, FieldsKey(t))
            IN  /\ given = <<"">> =>
                      (t \in DOMAIN req.result /\ req.result[t] = <<>>)
                /\ given = <<>> => t \notin DOMAIN req.result

\* C16: a relationship object serialized with require_data has the data
\* member whatever the getter returned; one serialized without require_data
\* has the data member exactly when the getter did not return the
\* not-loaded sentinel; and None is serialized as data: null.
C16_DataMemberPresence ==
    (enc.op \in {"encode", "serialize_relationship"}
     /\ enc.result.raised = "none") =>
        LET has_data == "data" \in DOMAIN enc.result.value
        IN  /\ enc.require_data => has_data
            /\ ~enc.require_data =>
                  (has_data <=> enc.returned.kind # "sentinel")
            /\ enc.returned.kind = "None" =>
                  (has_data /\ enc.result.value.data = JNull)

\* The shape C18 names: a non-empty object with no other keys than links,
\* data and meta, that has the data member when require_data is declared,
\* every resource identifier object in data of an allowed remote type (any
\* type when none is declared), and data null or one identifier object
\* for a to-one and an array of identifier objects for a to-many
\* relationship.
C18_Shape ==
    LET d == val.d
        rel == val.validator
        IsIdentifier(v) ==
            /\ v.json = "object"
            /\ {"type", "id"} \subseteq DOMAIN v.members
            /\ DOMAIN v.members \subseteq {"type", "id", "meta"}
            /\ rel.types # {} => v.members.type \in rel.types
    IN  /\ d.json = "object"
        /\ DOMAIN d.members # {}
        /\ DOMAIN d.members \subseteq {"links", "data", "meta"}
        /\ rel.require_data => "data" \in DOMAIN d.members
        /\ "data" \in DOMAIN d.members =>
              IF rel.to_one
              THEN d.members.data.json = "null" \/ IsIdentifier(d.members.data)
              ELSE /\ d.members.data.json = "array"
                   /\ \A i \in DOMAIN d.members.data.items :
                         IsIdentifier(d.members.data.items[i])

\* C18 as stated: a relationship validator accepts a document if and only
\* if it has this shape, and every rejection is an InvalidDocument.
C18_AcceptsExactlyTheShape ==
    val.op = "validate" =>
        /\ val.result.raised \in {"none", "InvalidDocument"}
        /\ val.result.raised = "none" <=> C18_Shape

\* C18 amended: the same, where a document is only accepted if, besides,
\* its links member, if it has one, is a links object and its meta member,
\* if it has one, is a meta object.
C18_AcceptsTheShapeWithValidLinksAndMeta ==
    val.op = "validate" =>
        LET m == val.d.members
        IN  /\ val.result.raised \in {"none", "InvalidDocument"}
            /\ val.result.raised = "none" <=>
                  /\ C18_Shape
                  /\ "links" \in DOMAIN m => m.links.json = "object"
                  /\ "meta" \in DOMAIN m => m.meta.json = "object"

\* C18 witness: a to-many validator with the remote type User rejects a
\* well-formed relationship object for the Comment in its data.
C18_Witness ==
    /\ val.op = "validate"
    /\ ~val.validator.to_one
    /\ val.validator.types = {"User"}
    /\ DOMAIN val.d.members = {"data", "links"}
    /\ val.d.members.links = RelationshipLinks
    /\ val.d.members.data =
          JArray(<<IdentifierObject("User", 1),
                   IdentifierObject("Comment", 2)>>)
    /\ val.result.raised = "InvalidDocument"

\* C19: if a validator method of a kind (attribute, relationship, link,
\* meta) is required, assert_resource_object rejects with InvalidDocument
\* every resource object without the member of that kind (attributes,
\* relationships, links, meta), and does so for the missing member itself,
\* not for a member inside it; if no method of a kind is required, a
\* resource object is not rejected for leaving the member out.
C19_RequiredContainingMember ==
    val.op = "assert_resource_object" =>
        LET v == val.validator
            d == val.d
            Kinds == {"attributes", "relationships", "links", "meta"}
            Required(kind) ==
                CASE kind = "attributes" ->
                        \E n \in DOMAIN v.attributes : v.attributes[n]
                  [] kind = "relationships" ->
                        \E n \in DOMAIN v.relationships :
                            v.relationships[n].required
                  [] kind = "links" -> \E n \in DOMAIN v.links : v.links[n]
                  [] kind = "meta" -> \E n \in DOMAIN v.meta : v.meta[n]
            IsRequired(kind) ==
                InvalidDocument("The '" \o kind \o "' object is required.")
            Missing == {kind \in Kinds :
                           Required(kind) /\ kind \notin DOMAIN d.members}
            Inner ==
                [attributes |-> "The 'title' attribute is missing.",
                 relationships |-> "The 'author' relationship is missing.",
                 links |-> "The 'self' link is missing.",
                 meta |-> "The 'rev' meta is missing."]
            Order == [attributes |-> 1, relationships |-> 2, links |-> 3,
                      meta |-> 4]
            first == CHOOSE kind \in Missing :
                        \A other \in Missing : Order[kind] <= Order[other]
        IN  /\ Missing # {} => val.result.raised = "InvalidDocument"
            /\ \A kind \in Missing : val.result.detail # Inner[kind]
            /\ (/\ Missing # {}
                /\ {"type"} \subseteq DOMAIN d.members
                /\ "data" \notin DOMAIN d.members
                /\ \A kind \in Kinds :
                      Order[kind] < Order[first] =>
                          kind \notin DOMAIN d.members) =>
                  val.result = IsRequired(first)
            /\ \A kind \in Kinds :
                  val.result = IsRequired(kind) => kind \in Missing
            /\ (Missing = {} /\ DOMAIN d.members = {"type", "id"}) =>
                  val.result = Valid

\* C19 witness: a validator whose only required method is an attribute
\* rejects a resource object with relationships, links and meta and
\* without attributes, for the missing attributes object.
C19_Witness ==
    /\ val.op = "assert_resource_object"
    /\ val.validator.attributes = [title |-> TRUE]
    /\ DOMAIN val.d.members = {"type", "id", "relationships", "links", "meta"}
    /\ val.result =
          InvalidDocument("The 'attributes' object is required.")

\* C17: the resource object Encoder.serialize_resource produces for a
\* resource is accepted by assert_resource_object of the Validator that
\* declares the same attributes and relationships, when the relationship
\* methods of the encoder return None, Omit, a related resource or a list
\* of related resources.
C17_EncodedResourceIsValid ==
    (/\ val.op = "round_trip"
     /\ val.returned.author.kind \in {"None", "sentinel", "resource"}
     /\ val.returned.comments.kind \in {"sentinel", "list"}
     /\ \A i \in DOMAIN val.returned.comments.items :
           val.returned.comments.items[i].kind = "resource") =>
        val.result = Valid

\* C20: the pagination of a request is enabled only if page[number] and
\* page[size] are both given and valid (a non-negative, respectively a
\* positive integer string) and disabled only if both are absent; a request
\* with only one of them, or with an invalid value, fails with a BadRequest
\* that names a page parameter, and no default value is used instead.
C20_BothOrNeither ==
    req.op \in {"japi_paginate", "NumberSize.from_request"} =>
        LET number == QueryValues(req.query, "page[number]")
            size == QueryValues(req.query, "page[size]")
            both_valid == /\ number \in {<<"0">>, <<"2">>}
                          /\ size = <<"2">>
            both_absent == number = <<>> /\ size = <<>>
        IN  IF req.op = "japi_paginate"
            THEN /\ (req.result.raised = "none" /\ req.result.value = 1)
                       <=> both_valid
                 /\ (req.result.raised = "none" /\ req.result.value = 0)
                       <=> both_absent
                 /\ ~(both_valid \/ both_absent) =>
                       /\ req.result.raised = "BadRequest"
                       /\ req.result.parameter \in
                             {"page[number]", "page[size]", "page[]"}
            ELSE /\ req.result.raised = "none" =>
                       (both_valid
                        /\ req.result.number = int(number[1])
                        /\ req.result.size = int(size[1]))
                 /\ ~both_valid => req.result.raised = "BadRequest"

-----------------------------------------------------------------------------
(* Claims about Schema.update_resource *)

\* the items of the member *member* of the resource object *data*
MemberItems(data, member) ==
    IF member \in DOMAIN data THEN data[member] ELSE <<>>

\* the resource object names a field without a setter that is not writable
NamesReadOnlyField(schema, data) ==
    \E member \in {"attributes", "relationships"} :
        \E i \in DOMAIN MemberItems(data, member) :
            LET name == MemberItems(data, member)[i][1]
            IN  /\ name \in DOMAIN schema[member]
                /\ ~schema[member][name].fset
                /\ ~schema[member][name].writable

\* C21: an update whose resource object names a field that has no setter
\* and is not writable raises ReadOnlyField and leaves every field of the
\* resource as it was, whatever other fields the object names before it.
C21_ReadOnlyFieldLeavesResource ==
    (upd.op = "update_resource" /\ NamesReadOnlyField(upd.schema, upd.data))
        => /\ upd.result.raised = "ReadOnlyField"
           /\ upd.result.resource = upd.resource

-----------------------------------------------------------------------------
(* Claims about resources the storage does not hold *)

\* the handler of the response called the storage method *op* for an id
\* of which the storage returns no resource
LoadsUnknownId(op) ==
    /\ resp.op = "handle_request"
    /\ resp.result.handler # NoHandler
    /\ resp.result.calls # <<>>
    /\ resp.result.calls[1].op = op
    /\ resp.fault = NoFault
    /\ "id" \in DOMAIN resp.result.args
    /\ StoredResource(resp.result.handler.typename,
                      resp.result.args.id) = None

\* C22: a request that fetches or updates a resource by an id the storage
\* does not return fails with NotFound (the same is claimed of a delete,
\* whose storage method the application writes); when the API is not in
\* debug mode, handle_request answers it with a 404 error document.
C22_UnknownIdIsNotFound ==
    \A op \in {"get_resource", "update_resource"} :
        (LoadsUnknownId(op) /\ ~debug) =>
            /\ resp.result.out.raised = "none"
            /\ resp.result.out.status = 404
            /\ DOMAIN resp.result.out.body = {"errors"}

-----------------------------------------------------------------------------
(* Claims about the documents of the responses *)

\* C23: every response handle_request returns with a body, a success
\* document as well as an error document, is a document with the top-level
\* member jsonapi.
C23_EveryBodyHasJsonapi ==
    (/\ resp.op = "handle_request"
     /\ resp.result.out.raised = "none"
     /\ resp.result.out.body # <<>>)
        => "jsonapi" \in DOMAIN resp.result.out.body

-----------------------------------------------------------------------------
(* Claims about the filters of a request *)

\* C24: get_filter(field, filtername, default) returns the rule of the
\* filter whenever has_filter(field, filtername) is true, and default
\* whenever it is false.
C24_GetFilterAgreesWithHasFilter ==
    (req.op = "get_filter" /\ req.result.raised = "none") =>
        LET filters == japi_filters(req.query).filters
        IN  IF req.result.has
            THEN \E i \in DOMAIN filters :
                    /\ filters[i][1] = req.field
                    /\ filters[i][2] = req.filtername
                    /\ req.result.value = filters[i][3]
            ELSE req.result.value = req.default

-----------------------------------------------------------------------------
(* Claims about the compound documents of the response builders *)

\* C25: in the document a Collection or Resource builder renders, included
\* has no two entries with the same (type, id) and no entry that is also in
\* the primary data, however often fetch_include was called and whatever
\* list of included resources the builder was constructed with.
C25_IncludedIsDistinctFromData ==
    (rb.op = "builder" /\ rb.document # <<>>
     /\ "included" \in DOMAIN rb.document) =>
        LET included == rb.document.included
            data == rb.document.data
        IN  /\ \A i, j \in DOMAIN included :
                  included[i] = included[j] => i = j
            /\ \A i \in DOMAIN included, j \in DOMAIN data :
                  included[i] # data[j]

-----------------------------------------------------------------------------
(* Claims about following the pagination links *)

\* the walk is on the page the link *rel* of that page addresses
WalkIsOn(rel) == WalkLinks(walk).self = WalkLinks(walk)[rel]

\* C26: with total_resources fixed, a client that starts at the first page
\* and keeps following next reaches, after finitely many steps, a page
\* without a next link, and that page is the page of the last link; a
\* client that keeps following prev reaches a page without prev, and that
\* page is the page of the first link.
C26_FollowingLinksReachesTheEnd ==
    /\ (walk.op = "walk" /\ walk.rel = "next")
          ~> (walk.op = "walk" /\ WalkEnded(walk) /\ WalkIsOn("last"))
    /\ (walk.op = "walk" /\ walk.rel = "prev")
          ~> (walk.op = "walk" /\ WalkEnded(walk) /\ WalkIsOn("first"))

-----------------------------------------------------------------------------
(* Claims about the numbers in the pagination links *)

\* the integer a link gives to the page parameter *key*
LinkValue(link, key) == LinkInt(link["page[" \o key \o "]"][1])

\* C27: for every NumberSize and LimitOffset helper with valid arguments,
\* total_resources = 0 and a size or limit of 1 included, every link has a
\* page[number], respectively page[offset], >= 0 and a page[size],
\* respectively page[limit], >= 1, and when the collection is not empty the
\* last link addresses the window that holds the final resource.
C27_LinkNumbersInRange ==
    (pager.op \in {"NumberSize", "LimitOffset"}
     /\ pager.result.raised = "none") =>
        LET links == pager.result.links
            total == pager.total_resources
        IN  IF pager.op = "NumberSize"
            THEN /\ \A rel \in DOMAIN links :
                       /\ LinkValue(links[rel], "number") >= 0
                       /\ LinkValue(links[rel], "size") >= 1
                 /\ total > 0 =>
                       LET first == LinkValue(links.last, "number")
                                       * LinkValue(links.last, "size")
                       IN  /\ first <= total - 1
                           /\ total - 1 < first
                                            + LinkValue(links.last, "size")
            ELSE /\ \A rel \in DOMAIN links :
                       /\ LinkValue(links[rel], "offset") >= 0
                       /\ LinkValue(links[rel], "limit") >= 1
                 /\ total > 0 =>
                       /\ LinkValue(links.last, "offset") <= total - 1
                       /\ total - 1 < LinkValue(links.last, "offset")
                                          + LinkValue(links.last, "limit")


\* C28: the json_links of a core Pagination contain next only if
\* (current_page + 1) * page_size < total_resources, also when
\* total_resources is an exact multiple of page_size.
C28_NextOnlyBeforeTheEnd ==
    (pager.op = "Pagination" /\ pager.result.raised = "none"
     /\ "next" \in DOMAIN pager.result.links)
        => (pager.number + 1) * pager.size < pager.total_resources

-----------------------------------------------------------------------------
(* Claims about the fetch calls of the Includer *)

\* C29: the number of fetch calls Includer.fetch_path makes to resolve one
\* include path is the same for every list of primary resources: it
\* depends on the segments of the path only, not on the number of primary
\* resources.
C29_FetchCallsIndependentOfResources ==
    (inc.op = "fetch_path" /\ inc.result.raised = "none") =>
        \A resources \in PrimaryLists(inc.type) :
            Len(fetch_path(inc.type, resources, inc.paths[1]).calls)
                = Len(inc.result.calls)

-----------------------------------------------------------------------------
(* Claims about the registered types *)

\* the encoders get_encoder returns for some typename, class or resource
ReachableEncoders ==
    {get_encoder(registry, o).encoder :
        o \in {l \in Lookups : get_encoder(registry, l).raised = "none"}}

\* C30: after any sequence of add_type calls, re-registrations included,
\* no two distinct encoders with the same typename are both returned by
\* get_encoder, be it for a typename, a resource class or a resource.
C30_OneEncoderPerTypename ==
    /\ \A e1, e2 \in ReachableEncoders :
          e1.typename = e2.typename => e1 = e2
    /\ registry.got # NoCall =>
          (registry.got.result.raised = "none"
              => registry.got.result.encoder \in ReachableEncoders)

==============================================================================
